---------------------------- MODULE Spec2Model ----------------------------
(***************************************************************************)
(* A model of the core of the stella package:                              *)
(*   - vox_rle.py : the RLEVOX voxel codec (write_rlevox, read_rlevox,     *)
(*                  _encode_rle_row);                                      *)
(*   - package.py : the .stella container (pack_stella, unpack_stella,     *)
(*                  read_stella_file, verify_stella_checksums,             *)
(*                  validate_stella);                                      *)
(*   - manifest.py: Manifest.to_dict / to_json / from_dict / from_json.    *)
(*                                                                         *)
(* Conventions.  A bytes object, and a str, is a sequence of numbers (the  *)
(* byte values, resp. the code points), so that slicing, joining,          *)
(* splitting and lexicographic comparison are computed and not assumed.    *)
(* A Python float is an integer number of fine units; the values a float32  *)
(* can hold are the multiples of F32Step, so that struct.pack("<f", v)      *)
(* loses precision as it does in the code.                                 *)
(***************************************************************************)
EXTENDS Integers, Sequences, FiniteSets, TLC

VARIABLES
    wr,       \* the write_rlevox call: its arguments and whether it has run
    stream,   \* the bytes of the .rlevox file
    rd,       \* the read_rlevox call: position in the code, locals, result
    pk,       \* the pack_stella call: its arguments and what it returned or raised
    disk,     \* the file at the path of the .stella archive
    edited,   \* None, or <<path>> once the entry at path was changed after packing
    call,     \* the call made on the archive, and what it returned or raised
    sch       \* a Manifest or LevelJson object or text, and the calls made on it

voxvars == <<wr, stream, rd>>
pkgvars == <<pk, disk, edited, call, sch>>
vars == <<wr, stream, rd, pk, disk, edited, call, sch>>

(***************************************************************************)
(* Bounds of the model.                                                    *)
(***************************************************************************)
MaxDim == 3        \* every grid dimension is in 0..MaxDim
MaxCells == 4      \* a grid has at most MaxCells cells

(***************************************************************************)
(* Generic helpers.                                                        *)
(***************************************************************************)
Min(a, b) == IF a < b THEN a ELSE b
Max(a, b) == IF a > b THEN a ELSE b

\* Python's s[a:b] for 0 <= a <= b on a sequence (offsets are 0-based).
Slice(s, a, b) == SubSeq(s, a + 1, Min(b, Len(s)))

\* b"\x00" * n
Zeros(n) == [i \in 1..n |-> 0]

(***************************************************************************)
(* struct.pack / struct.unpack, little-endian.                             *)
(***************************************************************************)
\* What a call raises, what it returns, and the result of no call.
Raise(exc, msg) == [kind |-> "error", exc |-> exc, msg |-> msg]
Returned(value) == [kind |-> "ok", value |-> value]
NoResult == [kind |-> "none"]

\* struct.pack("<H", n)
PackH(n) == <<n % 256, (n \div 256) % 256>>

\* struct.pack("<I", n)
PackI(n) ==
    <<n % 256, (n \div 256) % 256, (n \div 65536) % 256, (n \div 16777216) % 256>>

\* struct.pack("<B", n)
PackB(n) == <<n % 256>>

\* struct.unpack("<H", b)[0], struct.unpack("<I", b)[0], struct.unpack("<B", b)[0]
RECURSIVE UnpackLE(_)
UnpackLE(b) == IF b = <<>> THEN 0 ELSE Head(b) + 256 * UnpackLE(Tail(b))

\* The float32 grid: the representable values are the multiples of F32Step.
F32Step == 4

\* The rounding inside struct.pack("<f", v) (IEEE 754 round-to-nearest-even):
\* v as a whole number of steps, a tie going to the even number.
RoundF32(v, step) ==
    LET q == v \div step
        r == v % step
    IN  IF 2 * r < step THEN q
        ELSE IF 2 * r > step THEN q + 1
        ELSE IF q % 2 = 0 THEN q ELSE q + 1

RECURSIVE Pow2(_)
Pow2(k) == IF k = 0 THEN 1 ELSE 2 * Pow2(k - 1)

\* The binade of a magnitude a: 0 while the float32 values are F32Step apart
\* (below 2^24 steps), and one more each time the spacing doubles.
RECURSIVE Binade(_)
Binade(a) == IF a < 16777216 * F32Step THEN 0 ELSE 1 + Binade(a \div 2)

\* struct.pack("<f", v): the sign bit of v and the 31 bits of the magnitude
\* rounded to the float32 spacing of its binade, 4 bytes little-endian.  A v
\* below zero that rounds to zero is -0.0 and keeps its sign bit.  (The code
\* raises OverflowError beyond the largest float32; no number that the
\* integers here can hold is that large.)
PackF(v) ==
    LET a == IF v < 0 THEN 0 - v ELSE v
        k == Binade(a)
        bits == k * 8388608 + RoundF32(a, F32Step * Pow2(k))
        b == PackI(bits)
    IN  <<b[1], b[2], b[3], (b[4] % 128) + (IF v < 0 THEN 128 ELSE 0)>>

\* struct.unpack("<f", b)[0]; -0.0 is 0.
UnpackF(b) ==
    LET bits == UnpackLE(<<b[1], b[2], b[3], b[4] % 128>>)
        k == IF bits < 16777216 THEN 0 ELSE bits \div 8388608 - 1
        m == (bits - k * 8388608) * F32Step * Pow2(k)
    IN  IF b[4] >= 128 THEN 0 - m ELSE m

(***************************************************************************)
(* vox_rle.py: constants.                                                  *)
(***************************************************************************)
MAGIC == <<83, 84, 86, 88>>          \* b"STVX"
VERSION == 1
HEADER_SIZE == 64
ENCODING == <<82, 76, 69, 49>>       \* b"RLE1"
MaxRunLength == 65535                \* the largest run_length of a record

(***************************************************************************)
(* Grids: a numpy bool array of shape (dim_x, dim_y, dim_z).  An array of   *)
(* integers, as a caller may give to write_rlevox, has a dtype field      *)
(* besides; an array of another number of dimensions has a shape of that  *)
(* length.                                                                 *)
(***************************************************************************)
Idx(shape) == (0..(shape[1] - 1)) \X (0..(shape[2] - 1)) \X (0..(shape[3] - 1))

\* np.zeros(shape, dtype=bool)
ZerosGrid(shape) == [shape |-> shape, cells |-> [i \in Idx(shape) |-> FALSE]]

\* grid[:, y, z] as a sequence of int(row[i])
Row(grid, y, z) ==
    [i \in 1..grid.shape[1] |-> IF grid.cells[<<i - 1, y, z>>] THEN 1 ELSE 0]

\* grid[x:end_x, y, z] = True
SetRun(grid, x, end_x, y, z) ==
    [grid EXCEPT !.cells =
        [i \in DOMAIN grid.cells |->
            IF i[2] = y /\ i[3] = z /\ x <= i[1] /\ i[1] < end_x
            THEN TRUE ELSE grid.cells[i]]]

(***************************************************************************)
(* _encode_rle_row                                                         *)
(***************************************************************************)
\* The loop of _encode_rle_row from index i (1-based here), with the runs
\* appended so far, the current value and the current run length.
RECURSIVE EncodeLoop(_, _, _, _, _)
EncodeLoop(row, i, runs, current_value, run_length) ==
    IF i > Len(row) THEN Append(runs, <<run_length, current_value>>)
    ELSE IF row[i] = current_value
         THEN EncodeLoop(row, i + 1, runs, current_value, run_length + 1)
         ELSE EncodeLoop(row, i + 1, Append(runs, <<run_length, current_value>>),
                         row[i], 1)

_encode_rle_row(row) ==
    IF Len(row) = 0 THEN <<>> ELSE EncodeLoop(row, 2, <<>>, row[1], 1)

(***************************************************************************)
(* write_rlevox                                                            *)
(***************************************************************************)
\* A run record with the value and flags bytes in each other's place.
RunRecord_Swapped(chunk, value, flags) == PackH(chunk) \o PackB(flags) \o PackB(value)

\* The while loop with chunks of at most MaxRunLength - 1.
RECURSIVE SplitRun_Short(_, _)
SplitRun_Short(remaining, value) ==
    IF remaining > 0
    THEN LET chunk == IF remaining < MaxRunLength - 1 THEN remaining
                      ELSE MaxRunLength - 1
         IN  (<<chunk % 256, (chunk \div 256) % 256>> \o <<value % 256>> \o <<0>>)
             \o SplitRun_Short(remaining - chunk, value)
    ELSE <<>>

\* One run record: run_length, value, flags.
RunRecord(chunk, value, flags) == PackH(chunk) \o PackB(value) \o PackB(flags)

\* The while loop splitting one run into chunks of at most MaxRunLength.
RECURSIVE SplitRun(_, _)
SplitRun(remaining, value) ==
    IF remaining > 0
    THEN LET chunk == Min(remaining, MaxRunLength)
         IN  RunRecord(chunk, value, 0) \o SplitRun(remaining - chunk, value)
    ELSE <<>>

RECURSIVE WriteRuns(_)
WriteRuns(runs) ==
    IF runs = <<>> THEN <<>>
    ELSE SplitRun(Head(runs)[1], Head(runs)[2]) \o WriteRuns(Tail(runs))

\* The payload: rows in order z outer, y inner; k numbers the rows.
RECURSIVE WritePayload(_, _)
WritePayload(grid, k) ==
    LET dim_y == grid.shape[2]
        dim_z == grid.shape[3]
    IN  IF k >= dim_y * dim_z THEN <<>>
        ELSE WriteRuns(_encode_rle_row(Row(grid, k % dim_y, k \div dim_y)))
             \o WritePayload(grid, k + 1)

WriteHeader(grid, voxel_size, origin) ==
    LET fixed ==
            MAGIC \o PackH(VERSION) \o PackH(HEADER_SIZE)
            \o PackI(grid.shape[1]) \o PackI(grid.shape[2]) \o PackI(grid.shape[3])
            \o PackF(voxel_size)
            \o PackF(origin[1]) \o PackF(origin[2]) \o PackF(origin[3])
            \o ENCODING \o PackI(0)
    IN  IF Len(fixed) < HEADER_SIZE
        THEN fixed \o Zeros(HEADER_SIZE - Len(fixed))
        ELSE fixed

\* np.asarray(grid, dtype=bool): a cell of an integer array that is not zero
\* becomes True.
asarray_bool(grid) ==
    IF "dtype" \in DOMAIN grid
    THEN [shape |-> grid.shape,
          cells |-> [i \in DOMAIN grid.cells |-> grid.cells[i] # 0]]
    ELSE grid

\* A path that holds no file.
NoFile == [exists |-> FALSE, file |-> <<>>]

\* write_rlevox(path, grid, voxel_size, origin), with before what the path
\* holds when it is called (whether a file, and its bytes): whether it holds
\* a file afterwards and its bytes, whether the parent directory has been
\* made, and what the call returns or raises.  Lines 62-70 run before the
\* file is opened: a call that raises there leaves the path as it was.
write_rlevox(before, grid, voxel_size, origin) ==
    LET array == asarray_bool(grid)
    IN  IF Len(array.shape) # 3
        THEN [file |-> before.file, exists |-> before.exists, parent |-> TRUE,
              result |-> Raise("ValueError", "Grid must be 3D")]
        ELSE IF Len(origin) < 3
        THEN [file |-> before.file, exists |-> before.exists, parent |-> TRUE,
              result |-> Raise("ValueError", "not enough values to unpack")]
        ELSE IF Len(origin) > 3
        THEN [file |-> before.file, exists |-> before.exists, parent |-> TRUE,
              result |-> Raise("ValueError", "too many values to unpack")]
        ELSE [file |-> WriteHeader(array, voxel_size, origin)
                       \o WritePayload(array, 0),
              exists |-> TRUE, parent |-> TRUE,
              result |-> Returned(<<>>)]


(***************************************************************************)
(* read_rlevox                                                             *)
(***************************************************************************)
\* A header reader that takes the payload to start at HEADER_SIZE whatever
\* the header says.
ReadHeaderFields_FixedOffset(s) ==
    IF SubSeq(s, 1, 4) # MAGIC THEN Raise("ValueError", "Invalid magic")
    ELSE IF s[5] + 256 * s[6] # VERSION THEN Raise("ValueError", "Unsupported version")
    ELSE IF SubSeq(s, 37, 40) # ENCODING THEN Raise("ValueError", "Unsupported encoding")
    ELSE [kind |-> "header",
          header_size |-> HEADER_SIZE,
          dim_x |-> UnpackLE(SubSeq(s, 9, 12)),
          dim_y |-> UnpackLE(SubSeq(s, 13, 16)),
          dim_z |-> UnpackLE(SubSeq(s, 17, 20)),
          voxel_size |-> UnpackF(SubSeq(s, 21, 24)),
          origin |-> <<UnpackF(SubSeq(s, 25, 28)), UnpackF(SubSeq(s, 29, 32)),
                       UnpackF(SubSeq(s, 33, 36))>>]

\* A header check that looks at the encoding before the version.
ReadHeaderFields_EncodingFirst(s) ==
    IF SubSeq(s, 1, 4) # MAGIC THEN Raise("ValueError", "Invalid magic")
    ELSE IF SubSeq(s, 37, 40) # ENCODING THEN Raise("ValueError", "Unsupported encoding")
    ELSE IF s[5] + 256 * s[6] # VERSION THEN Raise("ValueError", "Unsupported version")
    ELSE [kind |-> "header",
          header_size |-> s[7] + 256 * s[8],
          dim_x |-> UnpackLE(SubSeq(s, 9, 12)),
          dim_y |-> UnpackLE(SubSeq(s, 13, 16)),
          dim_z |-> UnpackLE(SubSeq(s, 17, 20)),
          voxel_size |-> UnpackF(SubSeq(s, 21, 24)),
          origin |-> <<UnpackF(SubSeq(s, 25, 28)), UnpackF(SubSeq(s, 29, 32)),
                       UnpackF(SubSeq(s, 33, 36))>>]

\* Lines 136-163: the header fields, or the exception raised while reading
\* them.  f.read(n) returns what is left when fewer than n bytes remain, and
\* struct.unpack raises struct.error on a short buffer.
ReadHeaderFields(s) ==
    LET magic == Slice(s, 0, 4)
        encoding == Slice(s, 36, 40)
    IN  IF magic # MAGIC THEN Raise("ValueError", "Invalid magic")
        ELSE IF Len(s) < 6 THEN Raise("struct.error", "unpack requires a buffer")
        ELSE IF UnpackLE(Slice(s, 4, 6)) # VERSION
             THEN Raise("ValueError", "Unsupported version")
        ELSE IF Len(s) < 36 THEN Raise("struct.error", "unpack requires a buffer")
        ELSE IF encoding # ENCODING THEN Raise("ValueError", "Unsupported encoding")
        ELSE IF Len(s) < 44 THEN Raise("struct.error", "unpack requires a buffer")
        ELSE [kind |-> "header",
              header_size |-> UnpackLE(Slice(s, 6, 8)),
              dim_x |-> UnpackLE(Slice(s, 8, 12)),
              dim_y |-> UnpackLE(Slice(s, 12, 16)),
              dim_z |-> UnpackLE(Slice(s, 16, 20)),
              voxel_size |-> UnpackF(Slice(s, 20, 24)),
              origin |-> <<UnpackF(Slice(s, 24, 28)), UnpackF(Slice(s, 28, 32)),
                           UnpackF(Slice(s, 32, 36))>>]

\* The value returned at line 191.
Return(grid, voxel_size, origin) ==
    [kind |-> "ok", grid |-> grid, voxel_size |-> voxel_size, origin |-> origin]

\* The frame of a read_rlevox call that has not read anything yet.
ReadStart ==
    [pc |-> "open", pos |-> 0, header_size |-> 0,
     dim_x |-> 0, dim_y |-> 0, dim_z |-> 0,
     voxel_size |-> 0, origin |-> <<0, 0, 0>>,
     z |-> 0, y |-> 0, x |-> 0,
     grid |-> ZerosGrid(<<0, 0, 0>>),
     overshoot |-> FALSE, nrec |-> 0, wrote |-> {},
     result |-> NoResult]

\* Lines 134-166: open the file, read and check the header, seek to the
\* payload, allocate the grid.  With an empty grid no row reads a record and
\* line 191 returns at once.
ReadHeader ==
    /\ rd.pc = "open"
    /\ wr.pc # "start"
    /\ LET h == ReadHeaderFields(stream)
       IN  IF wr.pc = "failed" /\ ~wr.exists
           THEN rd' = [rd EXCEPT
                   !.pc = "done",
                   !.result = Raise("FileNotFoundError", "No such file or directory")]
           ELSE IF h.kind = "error"
           THEN rd' = [rd EXCEPT !.pc = "done", !.result = h]
           ELSE LET grid == ZerosGrid(<<h.dim_x, h.dim_y, h.dim_z>>)
                    empty == h.dim_x = 0 \/ h.dim_y = 0 \/ h.dim_z = 0
                IN  rd' = [rd EXCEPT
                        !.pc = IF empty THEN "done" ELSE "rows",
                        !.pos = h.header_size,
                        !.header_size = h.header_size,
                        !.dim_x = h.dim_x, !.dim_y = h.dim_y, !.dim_z = h.dim_z,
                        !.voxel_size = h.voxel_size, !.origin = h.origin,
                        !.grid = grid,
                        !.result = IF empty
                                   THEN Return(grid, h.voxel_size, h.origin)
                                   ELSE NoResult]
    /\ UNCHANGED <<wr, stream, pkgvars>>

\* The end of a run that covers no cell.
EndX_NoAdvance(x, run_length, dim_x) == x

\* The end of a run that is not cut at the end of the row.
EndX_Unclamped(x, run_length, dim_x) == x + run_length

\* The end of x after a record of run_length is read at x (line 183).
EndX(x, run_length, dim_x) == Min(x + run_length, dim_x)

\* A loop that takes a record with run_length 0 as a record of no cells and
\* reads on.
ReadRun_SkipsEmptyRuns ==
    /\ rd.pc = "rows"
    /\ LET run_data == SubSeq(stream, rd.pos + 1, Min(rd.pos + 4, Len(stream)))
           run_length == run_data[1] + 256 * run_data[2]
           end_x == Min(rd.x + run_length, rd.dim_x)
           grid == IF run_data[3] = 1
                   THEN SetRun(rd.grid, rd.x, end_x, rd.y, rd.z)
                   ELSE rd.grid
           last_y == rd.y + 1 = rd.dim_y
           last_z == rd.z + 1 = rd.dim_z
       IN  IF Len(run_data) < 4
           THEN rd' = [rd EXCEPT !.pc = "done", !.pos = rd.pos + Len(run_data),
                          !.result = Raise("ValueError", "Unexpected EOF")]
           ELSE IF end_x < rd.dim_x
           THEN rd' = [rd EXCEPT !.pos = rd.pos + 4, !.nrec = rd.nrec + 1,
                          !.grid = grid, !.x = end_x]
           ELSE rd' = [rd EXCEPT
                          !.pos = rd.pos + 4, !.nrec = rd.nrec + 1,
                          !.grid = grid,
                          !.overshoot = rd.overshoot \/ rd.x + run_length > rd.dim_x,
                          !.x = IF last_y /\ last_z THEN end_x ELSE 0,
                          !.y = IF last_y THEN (IF last_z THEN rd.y ELSE 0)
                                ELSE rd.y + 1,
                          !.z = IF last_y /\ ~last_z THEN rd.z + 1 ELSE rd.z,
                          !.pc = IF last_y /\ last_z THEN "done" ELSE "rows",
                          !.result = IF last_y /\ last_z
                                     THEN Return(grid, rd.voxel_size, rd.origin)
                                     ELSE NoResult]
    /\ UNCHANGED <<wr, stream, pkgvars>>

\* A loop that takes every value byte other than 0 as solid.
ReadRun_NonzeroSolid ==
    /\ rd.pc = "rows"
    /\ LET run_data == Slice(stream, rd.pos, rd.pos + 4)
           run_length == UnpackLE(Slice(run_data, 0, 2))
           value == run_data[3]
           end_x == EndX(rd.x, run_length, rd.dim_x)
           grid == IF value # 0
                   THEN SetRun(rd.grid, rd.x, end_x, rd.y, rd.z)
                   ELSE rd.grid
           wrote == IF value # 0
                    THEN rd.wrote \cup {<<i, rd.y, rd.z>> : i \in rd.x..(end_x - 1)}
                    ELSE rd.wrote
           last_y == rd.y + 1 = rd.dim_y
           last_z == rd.z + 1 = rd.dim_z
       IN  IF Len(run_data) < 4
           THEN rd' = [rd EXCEPT !.pc = "done", !.pos = rd.pos + Len(run_data),
                          !.result = Raise("ValueError", "Unexpected EOF")]
           ELSE IF run_length = 0
           THEN rd' = [rd EXCEPT !.pc = "done", !.pos = rd.pos + 4,
                          !.nrec = rd.nrec + 1,
                          !.result = Raise("ValueError", "Invalid run_length=0")]
           ELSE IF end_x < rd.dim_x
           THEN rd' = [rd EXCEPT !.pos = rd.pos + 4, !.nrec = rd.nrec + 1,
                          !.grid = grid, !.wrote = wrote, !.x = end_x]
           ELSE IF end_x # rd.dim_x
           THEN rd' = [rd EXCEPT !.pc = "done", !.pos = rd.pos + 4,
                          !.nrec = rd.nrec + 1, !.grid = grid, !.wrote = wrote, !.x = end_x,
                          !.overshoot = rd.overshoot \/ rd.x + run_length > rd.dim_x,
                          !.result = Raise("ValueError", "Row length mismatch")]
           ELSE rd' = [rd EXCEPT
                          !.pos = rd.pos + 4, !.nrec = rd.nrec + 1,
                          !.grid = grid, !.wrote = wrote,
                          !.overshoot = rd.overshoot \/ rd.x + run_length > rd.dim_x,
                          !.x = IF last_y /\ last_z THEN end_x ELSE 0,
                          !.y = IF last_y THEN (IF last_z THEN rd.y ELSE 0)
                                ELSE rd.y + 1,
                          !.z = IF last_y /\ ~last_z THEN rd.z + 1 ELSE rd.z,
                          !.pc = IF last_y /\ last_z THEN "done" ELSE "rows",
                          !.result = IF last_y /\ last_z
                                     THEN Return(grid, rd.voxel_size, rd.origin)
                                     ELSE NoResult]
    /\ UNCHANGED <<wr, stream, pkgvars>>

\* Lines 171-189: one iteration of the while loop of row (z, y): read one
\* record, mark its cells, advance x; when the loop ends, check the row length
\* and go to the next row, or return the grid after the last row.
\* overshoot, nrec and wrote are history fields: whether some record read so
\* far ran past dim_x, how many records were read, and the cells that the
\* assignments of line 185 named.
ReadRun ==
    /\ rd.pc = "rows"
    /\ LET run_data == Slice(stream, rd.pos, rd.pos + 4)
           run_length == UnpackLE(Slice(run_data, 0, 2))
           value == run_data[3]
           end_x == EndX(rd.x, run_length, rd.dim_x)
           grid == IF value = 1
                   THEN SetRun(rd.grid, rd.x, end_x, rd.y, rd.z)
                   ELSE rd.grid
           wrote == IF value = 1
                    THEN rd.wrote \cup {<<i, rd.y, rd.z>> : i \in rd.x..(end_x - 1)}
                    ELSE rd.wrote
           last_y == rd.y + 1 = rd.dim_y
           last_z == rd.z + 1 = rd.dim_z
       IN  IF Len(run_data) < 4
           THEN rd' = [rd EXCEPT !.pc = "done", !.pos = rd.pos + Len(run_data),
                          !.result = Raise("ValueError", "Unexpected EOF")]
           ELSE IF run_length = 0
           THEN rd' = [rd EXCEPT !.pc = "done", !.pos = rd.pos + 4,
                          !.nrec = rd.nrec + 1,
                          !.result = Raise("ValueError", "Invalid run_length=0")]
           ELSE IF end_x < rd.dim_x
           THEN rd' = [rd EXCEPT !.pos = rd.pos + 4, !.nrec = rd.nrec + 1,
                          !.grid = grid, !.wrote = wrote, !.x = end_x]
           ELSE IF end_x # rd.dim_x
           THEN rd' = [rd EXCEPT !.pc = "done", !.pos = rd.pos + 4,
                          !.nrec = rd.nrec + 1, !.grid = grid, !.wrote = wrote, !.x = end_x,
                          !.overshoot = rd.overshoot \/ rd.x + run_length > rd.dim_x,
                          !.result = Raise("ValueError", "Row length mismatch")]
           ELSE rd' = [rd EXCEPT
                          !.pos = rd.pos + 4, !.nrec = rd.nrec + 1,
                          !.grid = grid, !.wrote = wrote,
                          !.overshoot = rd.overshoot \/ rd.x + run_length > rd.dim_x,
                          !.x = IF last_y /\ last_z THEN end_x ELSE 0,
                          !.y = IF last_y THEN (IF last_z THEN rd.y ELSE 0)
                                ELSE rd.y + 1,
                          !.z = IF last_y /\ ~last_z THEN rd.z + 1 ELSE rd.z,
                          !.pc = IF last_y /\ last_z THEN "done" ELSE "rows",
                          !.result = IF last_y /\ last_z
                                     THEN Return(grid, rd.voxel_size, rd.origin)
                                     ELSE NoResult]
    /\ UNCHANGED <<wr, stream, pkgvars>>

(***************************************************************************)
(* The codec, end to end: write_rlevox(path, grid, voxel_size, origin) and *)
(* then read_rlevox(path).                                                 *)
(***************************************************************************)
Shapes ==
    {s \in (0..MaxDim) \X (0..MaxDim) \X (0..MaxDim) : s[1] * s[2] * s[3] <= MaxCells}

Grids == UNION {{[shape |-> s, cells |-> c] : c \in [Idx(s) -> BOOLEAN]} : s \in Shapes}

\* Arrays that are no bool grid: integers with a cell that is neither 0 nor
\* 1, and a bool array of two dimensions.
OtherArraysIn ==
    {[dtype |-> "int", shape |-> <<2, 1, 1>>,
      cells |-> (<<0, 0, 0>> :> 0) @@ (<<1, 0, 0>> :> 2)],
     [shape |-> <<1, 2>>, cells |-> (<<0, 0>> :> TRUE) @@ (<<0, 1>> :> FALSE)]}

\* Floats given to write_rlevox, in fine units: 4 and -8 are float32 values,
\* 3 and 5 are not, 10 lies halfway between two float32 values, -1 rounds to
\* the float32 -0.0, and 67108868 lies where float32 values are 8 apart.
VoxelSizes == {4, 5, 10}
Origins == {<<0, 0, 0>>, <<-8, 3, 12>>, <<-1, 67108868, 0>>}

\* Origins that are no triple.
OtherOriginsIn == {<<0, 0>>, <<0, 0, 0, 0>>}

\* What the path holds before the call: nothing, or b"old file".
BeforeIn ==
    {NoFile, [exists |-> TRUE, file |-> <<111, 108, 100, 32, 102, 105, 108, 101>>]}

\* The call on what the path holds; pc is "failed" when the call raised.
WriteCall ==
    /\ wr.pc = "start"
    /\ LET r == write_rlevox([exists |-> wr.exists, file |-> stream],
                             wr.grid, wr.voxel_size, wr.origin)
       IN  /\ stream' = r.file
           /\ wr' = [wr EXCEPT !.pc = IF r.result.kind = "ok" THEN "done"
                                      ELSE "failed",
                               !.exists = r.exists,
                               !.parent = r.parent,
                               !.result = r.result]
    /\ UNCHANGED <<rd, pkgvars>>

\* No archive is packed or read.
NoPackage ==
    /\ pk = [pc |-> "idle"]
    /\ disk = [kind |-> "absent"]
    /\ edited = <<>>
    /\ call = [op |-> "none"]
    /\ sch = [pc |-> "idle"]

InitVox ==
    /\ \E before \in BeforeIn :
          /\ \/ wr \in [pc : {"start"}, grid : Grids, voxel_size : VoxelSizes,
                        origin : Origins, exists : {before.exists},
                        parent : {FALSE}, result : {NoResult}]
             \/ wr \in [pc : {"start"}, grid : OtherArraysIn, voxel_size : {4},
                        origin : {<<0, 0, 0>>}, exists : {before.exists},
                        parent : {FALSE}, result : {NoResult}]
             \/ wr \in [pc : {"start"},
                        grid : {g \in Grids : g.shape = <<1, 1, 1>>},
                        voxel_size : {4}, origin : OtherOriginsIn,
                        exists : {before.exists},
                        parent : {FALSE}, result : {NoResult}]
          /\ stream = before.file
    /\ rd = ReadStart
    /\ NoPackage

NextVox == WriteCall \/ ReadHeader \/ ReadRun

SpecVox == InitVox /\ [][NextVox]_vars


(***************************************************************************)
(* The decoder on any file: read_rlevox(path) on a stream that write_rlevox *)
(* need not have produced.                                                 *)
(***************************************************************************)
MaxRecords == 3    \* a stream holds at most MaxRecords run records

\* The first 44 bytes of a header and its padding up to header_size.
HeaderBytes(magic, version, header_size, shape, voxel_size, origin, encoding) ==
    LET fixed ==
            magic \o PackH(version) \o PackH(header_size)
            \o PackI(shape[1]) \o PackI(shape[2]) \o PackI(shape[3])
            \o PackF(voxel_size)
            \o PackF(origin[1]) \o PackF(origin[2]) \o PackF(origin[3])
            \o encoding \o PackI(0)
    IN  fixed \o Zeros(header_size - Len(fixed))

RECURSIVE RecordBytes(_)
RecordBytes(recs) ==
    IF recs = <<>> THEN <<>>
    ELSE RunRecord(Head(recs)[1], Head(recs)[2], Head(recs)[3]) \o RecordBytes(Tail(recs))

\* The records a stream may hold: <<run_length, value, flags>>.
RunsIn == {0, 1, 3} \X {0, 1, 2} \X {0}

RecordSeqs == UNION {[1..n -> RunsIn] : n \in 0..MaxRecords}

\* The shapes a header may declare.
ShapesIn == {s \in Shapes : s[1] >= 1 /\ s[2] >= 1 /\ s[3] >= 1}

\* A file that lost its last k bytes.
CutTail(s, k) == SubSeq(s, 1, Len(s) - Min(k, Len(s)))

\* Tags that are not the ones of the format.
BAD_MAGIC == <<83, 84, 86, 89>>      \* b"STVY"
BAD_ENCODING == <<82, 76, 69, 50>>   \* b"RLE2"

\* Streams with a valid header, whose payload is whole records or ends
\* inside a record.
PayloadStreamsIn ==
    {HeaderBytes(MAGIC, VERSION, HEADER_SIZE, s, 4, <<0, 0, 0>>, ENCODING)
        \o CutTail(RecordBytes(recs), k) :
            s \in ShapesIn, recs \in RecordSeqs, k \in {0, 1, 3}}

\* Streams whose magic, version and encoding are right or wrong, in every
\* combination.
TaggedStreamsIn ==
    {HeaderBytes(magic, version, HEADER_SIZE, s, 4, <<0, 0, 0>>, encoding)
        \o RecordBytes(recs) :
            magic \in {MAGIC, BAD_MAGIC}, version \in {VERSION, VERSION + 1},
            encoding \in {ENCODING, BAD_ENCODING},
            s \in {<<1, 1, 1>>, <<2, 1, 1>>},
            recs \in {<<>>, <<<<1, 1, 0>>>>, <<<<0, 1, 0>>>>, <<<<1, 0, 0>>, <<1, 1, 0>>>>}}

StreamsIn == PayloadStreamsIn \cup TaggedStreamsIn

InitDecode ==
    /\ wr = [pc |-> "absent"]
    /\ stream \in StreamsIn
    /\ rd = ReadStart
    /\ NoPackage

NextDecode == ReadHeader \/ ReadRun

SpecDecode == InitDecode /\ [][NextDecode]_vars

(***************************************************************************)
(* Strings.  A str is the sequence of its code points.                     *)
(***************************************************************************)
MANIFEST_JSON == <<109, 97, 110, 105, 102, 101, 115, 116, 46, 106, 115, 111, 110>>
    \* "manifest.json"
CHECKSUMS_SHA256 ==
    <<99, 104, 101, 99, 107, 115, 117, 109, 115, 46, 115, 104, 97, 50, 53, 54>>
    \* "checksums.sha256"
S_levels_slash == <<108, 101, 118, 101, 108, 115, 47>>                 \* "levels/"
S_slash == <<47>>                                                      \* "/"
S_level_json == <<108, 101, 118, 101, 108, 46, 106, 115, 111, 110>>    \* "level.json"
S_render_glb == <<114, 101, 110, 100, 101, 114, 46, 103, 108, 98>>     \* "render.glb"
S_collision_rlevox ==
    <<99, 111, 108, 108, 105, 115, 105, 111, 110, 46, 114, 108, 101, 118, 111, 120>>
    \* "collision.rlevox"
S_unknown == <<117, 110, 107, 110, 111, 119, 110>>                     \* "unknown"
S_stella_world == <<115, 116, 101, 108, 108, 97, 46, 119, 111, 114, 108, 100>>
    \* "stella.world"
S_meters == <<109, 101, 116, 101, 114, 115>>                           \* "meters"
S_Y == <<89>>                                                          \* "Y"
S_minus_Z == <<45, 90>>                                                \* "-Z"
S_right == <<114, 105, 103, 104, 116>>                                 \* "right"
S_two_spaces == <<32, 32>>                                             \* "  "
S_newline == <<10>>                                                    \* "\n"
S_now == <<50, 48, 50, 54>>        \* datetime.now(timezone.utc).isoformat(), cut short
S_created == <<50, 48, 50, 53>>    \* a created_utc given by the caller, cut short
S_stella_cli == <<115, 116, 101, 108, 108, 97, 45, 99, 108, 105>>      \* "stella-cli"
S_0_1_0 == <<48, 46, 49, 46, 48>>                                      \* "0.1.0"
S_abc123 == <<97, 98, 99, 49, 50, 51>>                                 \* "abc123"
S_title == <<77, 121, 32, 87, 111, 114, 108, 100>>                     \* "My World"
S_untitled == <<85, 110, 116, 105, 116, 108, 101, 100, 32, 87, 111, 114, 108, 100>>
    \* "Untitled World"
S_tag == <<100, 101, 109, 111>>                                        \* "demo"
S_lobby == <<76, 111, 98, 98, 121>>                                    \* "Lobby"
S_thumbnail == <<116, 104, 117, 109, 98, 110, 97, 105, 108>>           \* "thumbnail"
S_assets_thumb ==
    <<97, 115, 115, 101, 116, 115, 47, 116, 104, 117, 109, 98, 46, 112, 110, 103>>
    \* "assets/thumb.png"
S_id0 == <<48>>                                                        \* "0"
S_id1 == <<49>>                                                        \* "1"
S_zz_space == <<122, 122, 32>>                                         \* "zz "
S_x == <<120>>                                                         \* "x"
S_y == <<121>>                                                         \* "y"
S_zz_em == <<122, 122, 8195>>                                          \* "zz\u2003"
S_not_utf8 == <<255>>                                                  \* b"\xff"

\* a < b for two str, as Python compares them: by code point, a proper
\* prefix first.
RECURSIVE StrLess(_, _)
StrLess(a, b) ==
    IF b = <<>> THEN FALSE
    ELSE IF a = <<>> THEN TRUE
    ELSE IF Head(a) # Head(b) THEN Head(a) < Head(b)
    ELSE StrLess(Tail(a), Tail(b))

\* sorted(S) for a set S of str.
RECURSIVE Sorted(_)
Sorted(S) ==
    IF S = {} THEN <<>>
    ELSE LET least == CHOOSE a \in S : \A b \in S \ {a} : StrLess(a, b)
         IN  <<least>> \o Sorted(S \ {least})

\* The set of the elements of a list.
Range(f) == {f[i] : i \in DOMAIN f}

\* sep.join(parts)
RECURSIVE Join(_, _)
Join(sep, parts) ==
    IF parts = <<>> THEN <<>>
    ELSE IF Len(parts) = 1 THEN parts[1]
    ELSE parts[1] \o sep \o Join(sep, Tail(parts))

\* The least offset k >= 0 with text[k : k + len(sep)] == sep, or -1
\* (str.find).
RECURSIVE FindFrom(_, _, _)
FindFrom(text, sep, k) ==
    IF k + Len(sep) > Len(text) THEN -1
    ELSE IF Slice(text, k, k + Len(sep)) = sep THEN k
    ELSE FindFrom(text, sep, k + 1)

\* text.split(sep): every occurrence of sep splits.
RECURSIVE Split(_, _)
Split(text, sep) ==
    LET k == FindFrom(text, sep, 0)
    IN  IF k < 0 THEN <<text>>
        ELSE <<Slice(text, 0, k)>> \o Split(Slice(text, k + Len(sep), Len(text)), sep)

\* text.split(sep, 1): the first occurrence of sep splits.
Split1(text, sep) ==
    LET k == FindFrom(text, sep, 0)
    IN  IF k < 0 THEN <<text>>
        ELSE <<Slice(text, 0, k), Slice(text, k + Len(sep), Len(text))>>

\* The characters str.strip() removes: the code points that Python counts as
\* white space, in ASCII and beyond.
Whitespace ==
    {9, 10, 11, 12, 13, 28, 29, 30, 31, 32, 133, 160, 5760}
        \cup (8192 .. 8202) \cup {8232, 8233, 8239, 8287, 12288}

RECURSIVE LStrip(_)
LStrip(text) ==
    IF text # <<>> /\ Head(text) \in Whitespace THEN LStrip(Tail(text)) ELSE text

RECURSIVE RStrip(_)
RStrip(text) ==
    IF text # <<>> /\ text[Len(text)] \in Whitespace
    THEN RStrip(SubSeq(text, 1, Len(text) - 1))
    ELSE text

\* text.strip()
Strip(text) == RStrip(LStrip(text))

(***************************************************************************)
(* UTF-8.  A str is a sequence of code points and bytes are a sequence of  *)
(* byte values; str.encode("utf-8") and bytes.decode("utf-8") go from one  *)
(* to the other.                                                           *)
(***************************************************************************)
\* A code point that UTF-8 has no bytes for.
IsSurrogate(c) == c >= 55296 /\ c <= 57343

\* The bytes of one code point.
Utf8Char(c) ==
    IF c < 128 THEN <<c>>
    ELSE IF c < 2048 THEN <<192 + (c \div 64), 128 + (c % 64)>>
    ELSE IF c < 65536
    THEN <<224 + (c \div 4096), 128 + ((c \div 64) % 64), 128 + (c % 64)>>
    ELSE <<240 + (c \div 262144), 128 + ((c \div 4096) % 64),
           128 + ((c \div 64) % 64), 128 + (c % 64)>>

\* The bytes of the code points of text, one after the other: the code
\* points themselves when all are ASCII; a longer text is taken by halves.
RECURSIVE Utf8Bytes(_)
Utf8Bytes(text) ==
    IF \A i \in DOMAIN text : text[i] < 128 THEN text
    ELSE IF Len(text) = 1 THEN Utf8Char(text[1])
    ELSE LET half == Len(text) \div 2
         IN  Utf8Bytes(SubSeq(text, 1, half))
             \o Utf8Bytes(SubSeq(text, half + 1, Len(text)))

\* UTF-8 has bytes for text.
Encodable(text) == \A i \in DOMAIN text : ~IsSurrogate(text[i])

\* text.encode("utf-8")
Utf8Encode(text) ==
    IF ~Encodable(text)
    THEN Raise("UnicodeEncodeError", "surrogates not allowed")
    ELSE Returned(Utf8Bytes(text))

\* b[k] is a continuation byte.
Continues(b, k) == k <= Len(b) /\ b[k] >= 128 /\ b[k] <= 191

\* The length of the well-formed sequence of one code point at b[k], 0 when
\* there is none there.
Utf8Len(b, k) ==
    LET c == b[k]
    IN  IF c < 128 THEN 1
        ELSE IF c >= 194 /\ c <= 223
        THEN IF Continues(b, k + 1) THEN 2 ELSE 0
        ELSE IF c >= 224 /\ c <= 239
        THEN IF /\ Continues(b, k + 1) /\ Continues(b, k + 2)
                /\ (c = 224 => b[k + 1] >= 160)
                /\ (c = 237 => b[k + 1] <= 159)
             THEN 3 ELSE 0
        ELSE IF c >= 240 /\ c <= 244
        THEN IF /\ Continues(b, k + 1) /\ Continues(b, k + 2) /\ Continues(b, k + 3)
                /\ (c = 240 => b[k + 1] >= 144)
                /\ (c = 244 => b[k + 1] <= 143)
             THEN 4 ELSE 0
        ELSE 0

\* The code point of the sequence of n bytes at b[k].
Utf8Point(b, k, n) ==
    IF n = 1 THEN b[k]
    ELSE IF n = 2 THEN (b[k] - 192) * 64 + (b[k + 1] - 128)
    ELSE IF n = 3
    THEN (b[k] - 224) * 4096 + (b[k + 1] - 128) * 64 + (b[k + 2] - 128)
    ELSE (b[k] - 240) * 262144 + (b[k + 1] - 128) * 4096
         + (b[k + 2] - 128) * 64 + (b[k + 3] - 128)

RECURSIVE Utf8DecodeFrom(_, _)
Utf8DecodeFrom(b, k) ==
    IF k > Len(b) THEN Returned(<<>>)
    ELSE LET n == Utf8Len(b, k)
         IN  IF n = 0
             THEN Raise("UnicodeDecodeError", "'utf-8' codec can't decode byte")
             ELSE LET rest == Utf8DecodeFrom(b, k + n)
                  IN  IF rest.kind = "error" THEN rest
                      ELSE Returned(<<Utf8Point(b, k, n)>> \o rest.value)

\* b.decode("utf-8"): the bytes themselves when all are ASCII; longer bytes
\* are taken by halves, cut where a sequence starts: every sequence then
\* lies in one half, and bytes that are ill-formed leave a half that is
\* ill-formed.
RECURSIVE Utf8Decode(_)
Utf8Decode(b) ==
    IF \A i \in DOMAIN b : b[i] < 128 THEN Returned(b)
    ELSE IF Len(b) <= 8 THEN Utf8DecodeFrom(b, 1)
    ELSE LET half == Len(b) \div 2
             starts == {k \in half .. half + 3 : ~Continues(b, k)}
             cut == IF starts = {} THEN half
                    ELSE CHOOSE k \in starts : \A j \in starts : k <= j
             left == Utf8Decode(SubSeq(b, 1, cut - 1))
             right == Utf8Decode(SubSeq(b, cut, Len(b)))
         IN  IF left.kind = "error" THEN left
             ELSE IF right.kind = "error" THEN right
             ELSE Returned(left.value \o right.value)

(***************************************************************************)
(* manifest.py.  A dataclass instance is a record of its fields; a field   *)
(* of type Optional[T] holds None or <<v>> for a value v of T.  A dict     *)
(* with fixed keys (what to_dict builds, what json.loads returns) is a     *)
(* function from the key names to the values; a key that is absent is not  *)
(* in its domain.                                                          *)
(***************************************************************************)
None == <<>>
Some(v) == <<v>>

\* {} : the dict with no key
EmptyDict == <<>>

\* d.get(key, default)
Get(d, key, default) == IF key \in DOMAIN d THEN d[key] ELSE default

Axis(up, forward, handedness) ==
    [up |-> up, forward |-> forward, handedness |-> handedness]

Generator(name, version, git_commit) ==
    [name |-> name, version |-> version, git_commit |-> git_commit]

World(title, tags, privacy) == [title |-> title, tags |-> tags, privacy |-> privacy]

Level(id, path, name) == [id |-> id, path |-> path, name |-> name]

\* The defaults of the dataclass fields (lines 17-19, 25-27, 33-35, 43).
DefaultAxis == Axis(S_Y, S_minus_Z, S_right)
DefaultPrivacy == [contains_source_media |-> FALSE]

\* {k: v for k, v in asdict(lvl).items() if v is not None}: id and path are
\* str, name is Optional[str].
LevelToDict(lvl) ==
    [id |-> lvl.id, path |-> lvl.path]
    @@ (IF lvl.name # None THEN [name |-> lvl.name[1]] ELSE EmptyDict)

\* A generator dictionary that leaves git_commit out even when it is set.
GeneratorToDict_NoCommit(gen) == [name |-> gen.name, version |-> gen.version]

\* {k: v for k, v in asdict(self.generator).items() if v is not None}
GeneratorToDict(gen) ==
    [name |-> gen.name, version |-> gen.version]
    @@ (IF gen.git_commit # None THEN [git_commit |-> gen.git_commit[1]] ELSE EmptyDict)

\* Manifest.to_dict
to_dict(m) ==
    [format |-> m.format,
     version |-> m.version,
     created_utc |-> m.created_utc,
     units |-> m.units,
     axis |-> m.axis,
     levels |-> [i \in 1..Len(m.levels) |-> LevelToDict(m.levels[i])]]
    @@ (IF m.generator # None
        THEN [generator |-> GeneratorToDict(m.generator[1])] ELSE EmptyDict)
    @@ (IF m.world # None THEN [world |-> m.world[1]] ELSE EmptyDict)
    @@ (IF m.assets # EmptyDict THEN [assets |-> m.assets] ELSE EmptyDict)

\* cls(**d) for a dataclass cls with the given fields, of which the required
\* ones have no default: the TypeError it raises (in a list), or nothing.
CtorErrors(d, fields, required, unexpected, missing) ==
    IF DOMAIN d \ fields # {} THEN <<Raise("TypeError", unexpected)>>
    ELSE IF required \ DOMAIN d # {} THEN <<Raise("TypeError", missing)>>
    ELSE <<>>

\* Level(**lvl), Axis(**d), Generator(**d), World(**d): a key that is absent
\* takes the default of its field.
LevelFromDict(d) ==
    Level(d.id, d.path, IF "name" \in DOMAIN d THEN Some(d.name) ELSE None)

LevelCtorErrors(d) ==
    CtorErrors(d, {"id", "path", "name"}, {"id", "path"},
               "Level.__init__() got an unexpected keyword argument",
               "Level.__init__() missing required positional argument")

\* The errors of [Level(**lvl) for lvl in levels], from the k-th level.
RECURSIVE LevelsCtorErrors(_, _)
LevelsCtorErrors(levels, k) ==
    IF k > Len(levels) THEN <<>>
    ELSE LevelCtorErrors(levels[k]) \o LevelsCtorErrors(levels, k + 1)

AxisFromDict(d) ==
    Axis(Get(d, "up", S_Y), Get(d, "forward", S_minus_Z), Get(d, "handedness", S_right))

AxisCtorErrors(d) ==
    CtorErrors(d, {"up", "forward", "handedness"}, {},
               "Axis.__init__() got an unexpected keyword argument", "")

GeneratorFromDict(d) ==
    Generator(Get(d, "name", S_stella_cli), Get(d, "version", S_0_1_0),
              IF "git_commit" \in DOMAIN d THEN Some(d.git_commit) ELSE None)

GeneratorCtorErrors(d) ==
    CtorErrors(d, {"name", "version", "git_commit"}, {},
               "Generator.__init__() got an unexpected keyword argument", "")

WorldFromDict(d) ==
    World(Get(d, "title", S_untitled), Get(d, "tags", <<>>),
          Get(d, "privacy", DefaultPrivacy))

WorldCtorErrors(d) ==
    CtorErrors(d, {"title", "tags", "privacy"}, {},
               "World.__init__() got an unexpected keyword argument", "")

\* Manifest.from_dict, for a dict d whose axis, generator and world (when
\* present) are dicts and whose levels is a list of dicts: the Manifest, or
\* the first TypeError a constructor raises, in the order axis, levels,
\* generator, world.
from_dict(d) ==
    LET levels == Get(d, "levels", <<>>)
        has_generator == "generator" \in DOMAIN d /\ d.generator # EmptyDict
        has_world == "world" \in DOMAIN d /\ d.world # EmptyDict
        raised ==
            AxisCtorErrors(Get(d, "axis", EmptyDict))
            \o LevelsCtorErrors(levels, 1)
            \o (IF has_generator THEN GeneratorCtorErrors(d.generator) ELSE <<>>)
            \o (IF has_world THEN WorldCtorErrors(d.world) ELSE <<>>)
    IN  IF raised # <<>> THEN raised[1]
        ELSE Returned(
               [format |-> Get(d, "format", S_stella_world),
                version |-> Get(d, "version", 1),
                created_utc |-> Get(d, "created_utc", S_now),
                units |-> Get(d, "units", S_meters),
                axis |-> AxisFromDict(Get(d, "axis", EmptyDict)),
                levels |-> [i \in 1..Len(levels) |-> LevelFromDict(levels[i])],
                generator |-> IF has_generator
                              THEN Some(GeneratorFromDict(d.generator)) ELSE None,
                world |-> IF has_world THEN Some(WorldFromDict(d.world)) ELSE None,
                assets |-> Get(d, "assets", EmptyDict)])

S_Z == <<90>>                                                          \* "Z"
S_left == <<108, 101, 102, 116>>                                       \* "left"

\* An error message: f"{msg}{arg}" (arg is "" for a message with no argument).
Err(msg, arg) == [msg |-> msg, arg |-> arg]

\* str(n) for an int n >= 0
RECURSIVE IntToStr(_)
IntToStr(n) == IF n < 10 THEN <<48 + n>> ELSE IntToStr(n \div 10) \o <<48 + (n % 10)>>

\* The errors of the levels with the path of a level checked before its id.
RECURSIVE LevelFieldErrors_PathFirst(_, _)
LevelFieldErrors_PathFirst(levels, k) ==
    IF k > Len(levels) THEN <<>>
    ELSE (IF levels[k].path = <<>>
          THEN <<Err("Level missing required 'path' field: ", levels[k].id)>>
          ELSE <<>>)
         \o (IF levels[k].id = <<>>
             THEN <<Err("Level missing required 'id' field", <<>>)>> ELSE <<>>)
         \o LevelFieldErrors_PathFirst(levels, k + 1)

\* Manifest.validate, lines 144-148: the errors of the levels from the k-th.
RECURSIVE LevelFieldErrors(_, _)
LevelFieldErrors(levels, k) ==
    IF k > Len(levels) THEN <<>>
    ELSE (IF levels[k].id = <<>>
          THEN <<Err("Level missing required 'id' field", <<>>)>> ELSE <<>>)
         \o (IF levels[k].path = <<>>
             THEN <<Err("Level missing required 'path' field: ", levels[k].id)>>
             ELSE <<>>)
         \o LevelFieldErrors(levels, k + 1)

\* Manifest.validate: the errors list it returns.
validate(m) ==
    LET errors1 == IF m.format # S_stella_world
                   THEN <<Err("Invalid format: ", m.format)>> ELSE <<>>
        errors2 == IF m.version # 1
                   THEN Append(errors1, Err("Unsupported version: ", IntToStr(m.version)))
                   ELSE errors1
        errors3 == IF m.levels = <<>>
                   THEN Append(errors2, Err("Manifest must contain at least one level", <<>>))
                   ELSE errors2
        errors4 == errors3 \o LevelFieldErrors(m.levels, 1)
        errors5 == IF m.axis.up \notin {S_Y, S_Z}
                   THEN Append(errors4, Err("Invalid up axis: ", m.axis.up))
                   ELSE errors4
    IN  IF m.axis.handedness \notin {S_left, S_right}
        THEN Append(errors5, Err("Invalid handedness: ", m.axis.handedness))
        ELSE errors5

(***************************************************************************)
(* manifest.py: LevelJson and the dataclasses of its fields.  A float is a *)
(* whole number of hundredths (1.7 is 170); json.dumps and json.loads keep *)
(* a float as it is.                                                       *)
(***************************************************************************)
S_Level_0 == <<76, 101, 118, 101, 108, 32, 48>>                        \* "Level 0"
S_glb == <<103, 108, 98>>                                              \* "glb"
S_rlevox == <<114, 108, 101, 118, 111, 120>>                           \* "rlevox"
S_none == <<110, 111, 110, 101>>                                       \* "none"
S_nav_uri == <<110, 97, 118, 46, 98, 105, 110>>                        \* "nav.bin"
S_video == <<118, 105, 100, 101, 111>>                                 \* "video"
S_notes == <<110, 111, 116, 101, 115>>                                 \* "notes"

PlayerCollision(height_m, radius_m, step_height_m) ==
    [height_m |-> height_m, radius_m |-> radius_m, step_height_m |-> step_height_m]

Spawn(position, yaw_degrees) == [position |-> position, yaw_degrees |-> yaw_degrees]

RenderAsset(type, uri) == [type |-> type, uri |-> uri]

CollisionAsset(type, uri, player) == [type |-> type, uri |-> uri, player |-> player]

NavigationAsset(type, uri) == [type |-> type, uri |-> uri]

CaptureInfo(source, source_fps, notes) ==
    [source |-> source, source_fps |-> source_fps, notes |-> notes]

\* The defaults of the dataclass fields (lines 162-164, 170-171, 177-178,
\* 184-186, 192-193, 199-201, 212).
DefaultPlayer == PlayerCollision(170, 30, 35)
DefaultSpawn == Spawn(<<0, 170, 0>>, 0)
DefaultRender == RenderAsset(S_glb, S_render_glb)
DefaultCollision == CollisionAsset(S_rlevox, S_collision_rlevox, DefaultPlayer)
DefaultNavigation == NavigationAsset(S_none, None)
DefaultScale == [meters_per_unit |-> 100]

\* asdict(self.navigation) as it is: a uri that is None is emitted.
NavigationToDict_Unfiltered(nav) == [type |-> nav.type, uri |-> nav.uri]

\* {k: v for k, v in asdict(self.navigation).items() if v is not None}
NavigationToDict(nav) ==
    [type |-> nav.type]
    @@ (IF nav.uri # None THEN [uri |-> nav.uri[1]] ELSE EmptyDict)

\* {k: v for k, v in asdict(self.capture).items() if v is not None}
CaptureToDict(capture) ==
    [source |-> capture.source]
    @@ (IF capture.source_fps # None
        THEN [source_fps |-> capture.source_fps[1]] ELSE EmptyDict)
    @@ (IF capture.notes # None THEN [notes |-> capture.notes[1]] ELSE EmptyDict)

\* LevelJson.to_dict
LevelJson_to_dict(l) ==
    [level_version |-> l.level_version,
     name |-> l.name,
     scale |-> l.scale,
     spawn |-> l.spawn,
     render |-> l.render,
     collision |-> l.collision,
     navigation |-> NavigationToDict(l.navigation)]
    @@ (IF l.capture # None
        THEN [capture |-> CaptureToDict(l.capture[1])] ELSE EmptyDict)

\* Lines 246-260: Spawn(**spawn_data), RenderAsset(**render_data),
\* PlayerCollision(**player_data), CollisionAsset(**collision_data,
\* player=player), NavigationAsset(**nav_data), CaptureInfo(**d["capture"]).
SpawnFromDict(d) ==
    Spawn(Get(d, "position", DefaultSpawn.position),
          Get(d, "yaw_degrees", DefaultSpawn.yaw_degrees))

RenderFromDict(d) == RenderAsset(Get(d, "type", S_glb), Get(d, "uri", S_render_glb))

PlayerFromDict(d) ==
    PlayerCollision(Get(d, "height_m", DefaultPlayer.height_m),
                    Get(d, "radius_m", DefaultPlayer.radius_m),
                    Get(d, "step_height_m", DefaultPlayer.step_height_m))

CollisionFromDict(d) ==
    CollisionAsset(Get(d, "type", S_rlevox), Get(d, "uri", S_collision_rlevox),
                   PlayerFromDict(Get(d, "player", EmptyDict)))

NavigationFromDict(d) ==
    NavigationAsset(Get(d, "type", S_none),
                    IF "uri" \in DOMAIN d THEN Some(d.uri) ELSE None)

CaptureFromDict(d) ==
    CaptureInfo(Get(d, "source", S_unknown),
                IF "source_fps" \in DOMAIN d THEN Some(d.source_fps) ELSE None,
                IF "notes" \in DOMAIN d THEN Some(d.notes) ELSE None)

\* collision_data after pop("player", {}): the keys of d without "player".
WithoutPlayer(d) == [k \in DOMAIN d \ {"player"} |-> d[k]]

\* LevelJson.from_dict, for a dict d whose spawn, render, collision,
\* collision.player, navigation and capture (when present) are dicts: the
\* LevelJson, or the first TypeError a constructor raises, in the order
\* spawn, render, player, collision, navigation, capture.
LevelJson_from_dict(d) ==
    LET collision_data == Get(d, "collision", EmptyDict)
        has_capture == "capture" \in DOMAIN d /\ d.capture # EmptyDict
        raised ==
            CtorErrors(Get(d, "spawn", EmptyDict), {"position", "yaw_degrees"}, {},
                       "Spawn.__init__() got an unexpected keyword argument", "")
            \o CtorErrors(Get(d, "render", EmptyDict), {"type", "uri"}, {},
                          "RenderAsset.__init__() got an unexpected keyword argument", "")
            \o CtorErrors(Get(collision_data, "player", EmptyDict),
                          {"height_m", "radius_m", "step_height_m"}, {},
                          "PlayerCollision.__init__() got an unexpected keyword argument", "")
            \o CtorErrors(WithoutPlayer(collision_data), {"type", "uri"}, {},
                          "CollisionAsset.__init__() got an unexpected keyword argument", "")
            \o CtorErrors(Get(d, "navigation", EmptyDict), {"type", "uri"}, {},
                          "NavigationAsset.__init__() got an unexpected keyword argument", "")
            \o (IF has_capture
                THEN CtorErrors(d.capture, {"source", "source_fps", "notes"}, {},
                                "CaptureInfo.__init__() got an unexpected keyword argument", "")
                ELSE <<>>)
    IN  IF raised # <<>> THEN raised[1]
        ELSE Returned(
               [level_version |-> Get(d, "level_version", 1),
                name |-> Get(d, "name", S_Level_0),
                scale |-> Get(d, "scale", DefaultScale),
                spawn |-> SpawnFromDict(Get(d, "spawn", EmptyDict)),
                render |-> RenderFromDict(Get(d, "render", EmptyDict)),
                collision |-> CollisionFromDict(collision_data),
                navigation |-> NavigationFromDict(Get(d, "navigation", EmptyDict)),
                capture |-> IF has_capture THEN Some(CaptureFromDict(d.capture))
                            ELSE None])

(***************************************************************************)
(* bytes.  The content of an archive entry is a record: raw bytes that are *)
(* not the text of a JSON document (kind "bytes", the byte values in       *)
(* data), the UTF-8 text of a JSON document (kind "json", the document     *)
(* json.loads returns in doc), or, as an argument of pack_stella only, an  *)
(* object that is no bytes at all (kind "int").  The str a content decodes *)
(* to is the content itself for a JSON document and a record of kind       *)
(* "text" with the code points in data otherwise.                          *)
(***************************************************************************)
Bytes(data) == [kind |-> "bytes", data |-> data]
NotBytes == [kind |-> "int"]

\* content.decode("utf-8"), for the content of an entry
DecodeText(content) ==
    IF content.kind = "json" THEN Returned(content)
    ELSE LET text == Utf8Decode(content.data)
         IN  IF text.kind = "error" THEN text
             ELSE Returned([kind |-> "text", data |-> text.value])

\* json.dumps(d, indent=2).encode("utf-8")
JsonBytes(d) == [kind |-> "json", doc |-> d]

\* Manifest.to_json(...).encode("utf-8")
to_json(m) == JsonBytes(to_dict(m))

\* LevelJson.to_json(...).encode("utf-8")
LevelJson_to_json(l) == JsonBytes(LevelJson_to_dict(l))

\* LevelJson.from_json(text): json.loads, then from_dict.
LevelJson_from_json(content) ==
    IF content.kind = "json" THEN LevelJson_from_dict(content.doc)
    ELSE Raise("JSONDecodeError", "Expecting value")

(***************************************************************************)
(* The file at a path, and zipfile.  A file is absent, or a ZIP archive    *)
(* (its members in the order they were written), or some other file.       *)
(***************************************************************************)
Absent == [kind |-> "absent"]
OtherFile == [kind |-> "other"]
Zip(entries) == [kind |-> "zip", entries |-> entries]

Entry(path, data) == [path |-> path, data |-> data]

\* zf.namelist(), as a set
NameSet(file) == {file.entries[i].path : i \in DOMAIN file.entries}

\* zf.read(path), for a path in zf.namelist(): the last member of that name
ZipRead(file, path) ==
    LET last == CHOOSE i \in DOMAIN file.entries :
                    /\ file.entries[i].path = path
                    /\ \A j \in DOMAIN file.entries :
                          file.entries[j].path = path => j <= i
    IN  file.entries[last].data

(***************************************************************************)
(* package.py: compute_sha256.  SHA-256 is taken to be free of collisions: *)
(* the digest of a content is the number of that content in the list of    *)
(* all contents, written as two hexadecimal digits.                        *)
(***************************************************************************)
RECURSIVE SetToSeq(_)
SetToSeq(S) ==
    IF S = {} THEN <<>>
    ELSE LET e == CHOOSE e \in S : TRUE IN <<e>> \o SetToSeq(S \ {e})

HexDigit(n) == IF n < 10 THEN 48 + n ELSE 87 + n

(***************************************************************************)
(* The arguments given to pack_stella.                                     *)
(***************************************************************************)
MaxLevels == 2     \* a manifest lists at most MaxLevels levels
MaxExtras == 1     \* a payload map holds at most MaxExtras paths outside levels/0/

\* levels/<id>/<member>
LevelFile(id, member) == S_levels_slash \o id \o S_slash \o member

LevelsIn ==
    {Level(S_id0, LevelFile(S_id0, S_level_json), None),
     Level(S_id1, LevelFile(S_id1, S_level_json), Some(S_lobby))}

LevelListsIn == UNION {[1..n -> LevelsIn] : n \in 0..MaxLevels}

MakeManifest(levels, generator, world, assets) ==
    [format |-> S_stella_world, version |-> 1, created_utc |-> S_created,
     units |-> S_meters, axis |-> DefaultAxis, levels |-> levels,
     generator |-> generator, world |-> world, assets |-> assets]

ManifestsIn ==
    {MakeManifest(lv, None, None, EmptyDict) : lv \in LevelListsIn}
    \cup {MakeManifest(<<Level(S_id0, LevelFile(S_id0, S_level_json), None)>>,
                       Some(Generator(S_stella_cli, S_0_1_0, None)),
                       Some(World(S_title, <<S_tag>>, DefaultPrivacy)),
                       S_thumbnail :> S_assets_thumb),
          MakeManifest(<<Level(S_id0, LevelFile(S_id0, S_level_json), None)>>,
                       Some(Generator(S_stella_cli, S_0_1_0, Some(S_abc123))),
                       None, EmptyDict)}

\* Level references whose path is the level.json of their directory, and
\* one whose path is somewhere else in the archive.
LookupLevelsIn ==
    {Level(S_id0, LevelFile(S_id0, S_level_json), None),
     Level(S_id0, S_assets_thumb, None),
     Level(S_id1, LevelFile(S_id0, S_level_json), None)}

LookupManifestsIn ==
    {MakeManifest(lv, None, None, EmptyDict) :
        lv \in UNION {[1..n -> LookupLevelsIn] : n \in 1..MaxLevels}}

\* The files of level 0, with the bytes given for each.
TriadIn ==
    (LevelFile(S_id0, S_level_json) :> JsonBytes([name |-> S_lobby]))
    @@ (LevelFile(S_id0, S_render_glb) :> Bytes(<<103, 108, 98>>))
    @@ (LevelFile(S_id0, S_collision_rlevox) :> Bytes(<<83, 84, 86, 88>>))

\* The other paths a payload map may hold, and the values given for them:
\* bytes or an int for a path outside the levels and for the two reserved
\* names, bytes that are no UTF-8 for checksums.sha256 and for a path a
\* level reference may name, and a path that ends in a white space beyond
\* ASCII.
ExtraPathsIn == {S_assets_thumb, S_zz_space, S_zz_em, MANIFEST_JSON, CHECKSUMS_SHA256}
ExtraValuesIn == {Bytes(S_x), NotBytes, Bytes(S_not_utf8)}

ExtrasIn ==
    (({S_assets_thumb, S_zz_space, MANIFEST_JSON, CHECKSUMS_SHA256}
        \X {Bytes(S_x), NotBytes})
     \cup {<<S_zz_em, Bytes(S_x)>>,
           <<S_assets_thumb, Bytes(S_not_utf8)>>,
           <<CHECKSUMS_SHA256, Bytes(S_not_utf8)>>})

Restrict(f, S) == [k \in S |-> f[k]]

FileMapsIn ==
    {Restrict(TriadIn, T) @@ e :
        T \in SUBSET DOMAIN TriadIn,
        e \in UNION {{f \in [E -> ExtraValuesIn] : \A p \in E : <<p, f[p]>> \in ExtrasIn} :
                        E \in {E \in SUBSET ExtraPathsIn : Cardinality(E) <= MaxExtras}}}

\* The bytes an entry of an archive may be changed to after packing.
EditsIn == {Bytes(S_x), Bytes(S_not_utf8)}

\* Every content that is hashed.
ContentsIn ==
    SetToSeq({to_json(m) : m \in ManifestsIn \cup LookupManifestsIn}
             \cup Range(TriadIn) \cup (ExtraValuesIn \ {NotBytes}) \cup EditsIn
             \cup {Bytes(S_y)})

\* compute_sha256(data), for data that is bytes: hashlib raises TypeError on
\* anything else.
compute_sha256(data) ==
    LET n == CHOOSE k \in DOMAIN ContentsIn : ContentsIn[k] = data
    IN  <<HexDigit(n \div 16), HexDigit(n % 16)>>

(***************************************************************************)
(* package.py: pack_stella                                                 *)
(***************************************************************************)
\* Lines 59-61: the manifest under manifest.json, updated with file_map.
AllFiles(manifest_bytes, file_map) ==
    file_map @@ (MANIFEST_JSON :> manifest_bytes)

\* Lines 66-71: the content of checksums.sha256 for all_files.
ChecksumLine(hash, path) == hash \o S_two_spaces \o path

ChecksumContent(all_files) ==
    LET paths == Sorted(DOMAIN all_files)
        checksum_lines ==
            [i \in 1..Len(paths) |->
                ChecksumLine(compute_sha256(all_files[paths[i]]), paths[i])]
    IN  Bytes(Utf8Bytes(Join(S_newline, checksum_lines)))

\* list.remove(x) for x in the list
Remove(list, x) ==
    LET k == CHOOSE k \in DOMAIN list :
                 list[k] = x /\ \A j \in DOMAIN list : list[j] = x => k <= j
    IN  SubSeq(list, 1, k - 1) \o SubSeq(list, k + 1, Len(list))

\* The member order without the two moves: plain ascending order.
SortedPaths_Plain(all_files) == Sorted(DOMAIN all_files)

\* Lines 74-82: the order in which the members are written.
SortedPaths(all_files) ==
    LET sorted_paths == Sorted(DOMAIN all_files)
        first == IF MANIFEST_JSON \in Range(sorted_paths)
                 THEN <<MANIFEST_JSON>> \o Remove(sorted_paths, MANIFEST_JSON)
                 ELSE sorted_paths
    IN  IF CHECKSUMS_SHA256 \in Range(first)
        THEN Remove(first, CHECKSUMS_SHA256) \o <<CHECKSUMS_SHA256>>
        ELSE first

\* Lines 85-87: zf.writestr(path, all_files[path]) for each path in order,
\* from the members written so far.  writestr raises TypeError on data that
\* is neither bytes nor str, and UnicodeEncodeError on a path that UTF-8
\* cannot encode; leaving the with block then closes the archive, which
\* holds the members written before.
RECURSIVE WriteMembers(_, _, _)
WriteMembers(entries, paths, all_files) ==
    IF paths = <<>> THEN [file |-> Zip(entries), result |-> [kind |-> "ok"]]
    ELSE IF all_files[Head(paths)].kind = "int"
    THEN [file |-> Zip(entries),
          result |-> Raise("TypeError", "object of type 'int' has no len()")]
    ELSE IF ~Encodable(Head(paths))
    THEN [file |-> Zip(entries),
          result |-> Raise("UnicodeEncodeError", "surrogates not allowed")]
    ELSE WriteMembers(Append(entries, Entry(Head(paths), all_files[Head(paths)])),
                      Tail(paths), all_files)

\* pack_stella(output_path, manifest, file_map, include_checksums), with
\* before the file at output_path when it is called: the file at output_path
\* afterwards, and what the call returns or raises.
pack_stella(before, manifest, file_map, include_checksums) ==
    LET manifest_bytes == to_json(manifest)
        all_files == AllFiles(manifest_bytes, file_map)
        unhashable == \E path \in DOMAIN all_files : all_files[path].kind = "int"
        with_checksums ==
            IF include_checksums
            THEN (CHECKSUMS_SHA256 :> ChecksumContent(all_files)) @@ all_files
            ELSE all_files
        unencodable == \E path \in DOMAIN all_files : ~Encodable(path)
    IN  IF include_checksums /\ unhashable
        THEN [file |-> before,
              result |-> Raise("TypeError", "object supporting the buffer API required")]
        ELSE IF include_checksums /\ unencodable
        THEN [file |-> before,
              result |-> Raise("UnicodeEncodeError", "surrogates not allowed")]
        ELSE WriteMembers(<<>>, SortedPaths(with_checksums), with_checksums)


(***************************************************************************)
(* package.py: verify_stella_checksums                                     *)
(***************************************************************************)
\* zipfile.ZipFile(path, "r") on a file that cannot be opened as an archive.
OpenError(file) ==
    IF file.kind = "absent"
    THEN Raise("FileNotFoundError", "No such file or directory")
    ELSE Raise("BadZipFile", "File is not a zip file")

\* Lines 202-220: the errors of one line of checksums.sha256.
LineErrors(file, line) ==
    LET parts == Split1(line, S_two_spaces)
        expected_hash == parts[1]
        path == parts[2]
    IN  IF line = <<>> THEN <<>>
        ELSE IF Len(parts) # 2 THEN <<Err("Malformed checksum line: ", line)>>
        ELSE IF path = CHECKSUMS_SHA256 THEN <<>>
        ELSE IF path \notin NameSet(file) THEN <<Err("Missing file: ", path)>>
        ELSE IF compute_sha256(ZipRead(file, path)) # expected_hash
             THEN <<Err("Checksum mismatch for ", path)>>
        ELSE <<>>

RECURSIVE LinesErrors(_, _)
LinesErrors(file, lines) ==
    IF lines = <<>> THEN <<>>
    ELSE LineErrors(file, Head(lines)) \o LinesErrors(file, Tail(lines))

\* A verification that also wants a line for every entry of the archive.
verify_stella_checksums_EveryEntry(file) ==
    IF file.kind # "zip" THEN OpenError(file)
    ELSE IF CHECKSUMS_SHA256 \notin NameSet(file)
    THEN Returned([ok |-> TRUE,
                   errors |-> <<Err("No checksums.sha256 file found (not an error)",
                                    <<>>)>>])
    ELSE LET checksum_content == DecodeText(ZipRead(file, CHECKSUMS_SHA256))
             lines == Split(Strip(checksum_content.value.data), S_newline)
             listed == {Split1(lines[i], S_two_spaces)[Len(Split1(lines[i], S_two_spaces))] :
                           i \in DOMAIN lines}
             unlisted == SetToSeq(NameSet(file) \ (listed \cup {CHECKSUMS_SHA256}))
             errors == LinesErrors(file, lines)
                       \o [i \in DOMAIN unlisted |-> Err("No checksum for ", unlisted[i])]
         IN  IF checksum_content.kind = "error" THEN checksum_content
             ELSE Returned([ok |-> Len(errors) = 0, errors |-> errors])

\* verify_stella_checksums(stella_path): what it returns or raises.  Line 200
\* decodes checksums.sha256 before any line is looked at.
verify_stella_checksums(file) ==
    IF file.kind # "zip" THEN OpenError(file)
    ELSE IF CHECKSUMS_SHA256 \notin NameSet(file)
    THEN Returned([ok |-> TRUE,
                   errors |-> <<Err("No checksums.sha256 file found (not an error)",
                                    <<>>)>>])
    ELSE LET checksum_content == DecodeText(ZipRead(file, CHECKSUMS_SHA256))
             errors == LinesErrors(file, Split(Strip(checksum_content.value.data),
                                               S_newline))
         IN  IF checksum_content.kind = "error" THEN checksum_content
             ELSE Returned([ok |-> Len(errors) = 0, errors |-> errors])

(***************************************************************************)
(* package.py: validate_stella                                             *)
(***************************************************************************)
\* Lines 320-324
RequiredFiles(level_id) ==
    <<LevelFile(level_id, S_level_json),
      LevelFile(level_id, S_render_glb),
      LevelFile(level_id, S_collision_rlevox)>>

\* Lines 326-328, from the k-th required file
RECURSIVE MissingFiles(_, _, _)
MissingFiles(file, required_files, k) ==
    IF k > Len(required_files) THEN <<>>
    ELSE (IF required_files[k] \notin NameSet(file)
          THEN <<Err("Missing required file: ", required_files[k])>>
          ELSE <<>>)
         \o MissingFiles(file, required_files, k + 1)

\* Lines 316-328, from the k-th level
RECURSIVE LevelsErrors(_, _, _)
LevelsErrors(file, levels, k) ==
    IF k > Len(levels) THEN <<>>
    ELSE MissingFiles(file, RequiredFiles(Get(levels[k], "id", S_unknown)), 1)
         \o LevelsErrors(file, levels, k + 1)

\* Lines 302-330: the errors appended for manifest.json, or the exception
\* that leaves the function.  Line 307 decodes the entry; only the
\* JSONDecodeError of json.loads is caught (line 329).
ManifestErrors(file) ==
    IF MANIFEST_JSON \notin NameSet(file)
    THEN Returned(<<Err("Missing required file: manifest.json", <<>>)>>)
    ELSE LET manifest_text == DecodeText(ZipRead(file, MANIFEST_JSON))
         IN  IF manifest_text.kind = "error" THEN manifest_text
             ELSE IF manifest_text.value.kind # "json"
             THEN Returned(<<Err("Invalid JSON in manifest.json: ", <<>>)>>)
             ELSE LET manifest_data == manifest_text.value.doc
                  IN  IF "levels" \notin DOMAIN manifest_data
                      THEN Returned(<<Err("manifest.json missing 'levels' field",
                                          <<>>)>>)
                      ELSE IF manifest_data.levels = <<>>
                      THEN Returned(<<Err("manifest.json has empty 'levels' array",
                                          <<>>)>>)
                      ELSE Returned(LevelsErrors(file, manifest_data.levels, 1))

\* Lines 333-336: the errors appended for checksums.sha256, or the exception
\* of verify_stella_checksums.
ChecksumErrors(file) ==
    IF CHECKSUMS_SHA256 \in NameSet(file)
    THEN LET checked == verify_stella_checksums(file)
         IN  IF checked.kind = "error" THEN checked
             ELSE IF ~checked.value.ok THEN Returned(checked.value.errors)
             ELSE Returned(<<>>)
    ELSE Returned(<<>>)

\* validate_stella(stella_path): what it returns or raises; an exception of
\* the try block leaves the function after zf.close().
validate_stella(file) ==
    IF file.kind = "absent"
    THEN Returned([ok |-> FALSE, errors |-> <<Err("File not found: ", <<>>)>>])
    ELSE IF file.kind # "zip"
    THEN Returned([ok |-> FALSE, errors |-> <<Err("Not a valid ZIP file", <<>>)>>])
    ELSE LET manifest_errors == ManifestErrors(file)
             checksum_errors == ChecksumErrors(file)
         IN  IF manifest_errors.kind = "error" THEN manifest_errors
             ELSE IF checksum_errors.kind = "error" THEN checksum_errors
             ELSE LET errors == manifest_errors.value \o checksum_errors.value
                  IN  Returned([ok |-> Len(errors) = 0, errors |-> errors])

(***************************************************************************)
(* package.py: unpack_stella, read_stella_file                             *)
(***************************************************************************)
\* Manifest.from_json(text): the Manifest, or the exception json.loads
\* raises.
from_json(content) ==
    IF content.kind = "json" THEN from_dict(content.doc)
    ELSE Raise("JSONDecodeError", "Expecting value")

\* Lines 119-120: Manifest.from_json(manifest_bytes.decode("utf-8"))
ReadManifest(file) ==
    LET manifest_text == DecodeText(ZipRead(file, MANIFEST_JSON))
    IN  IF manifest_text.kind = "error" THEN manifest_text
        ELSE from_json(manifest_text.value)

\* unpack_stella written with a with block: the ZipFile is closed when it
\* returns.
unpack_stella_WithBlock(file, extract_to, extract_fails) ==
    IF file.kind # "zip" THEN [result |-> OpenError(file), zf |-> "none"]
    ELSE IF MANIFEST_JSON \notin NameSet(file)
    THEN [result |-> Raise("ValueError", "Invalid .stella file: missing manifest.json"),
          zf |-> "closed"]
    ELSE LET manifest == ReadManifest(file)
         IN  IF manifest.kind = "error" THEN [result |-> manifest, zf |-> "closed"]
             ELSE IF extract_to # None /\ extract_fails
             THEN [result |-> Raise("OSError", "No space left on device"),
                   zf |-> "closed"]
             ELSE [result |-> Returned([manifest |-> manifest.value]),
                   zf |-> "closed"]

\* unpack_stella(stella_path, extract_to): what it returns or raises, and in
\* zf whether the ZipFile it opened is open or closed when it returns or
\* raises ("none": no ZipFile was opened).  extract_to is None or <<dir>>;
\* extract_fails tells whether the storage fails while zf.extractall writes.
unpack_stella(file, extract_to, extract_fails) ==
    IF file.kind # "zip" THEN [result |-> OpenError(file), zf |-> "none"]
    ELSE IF MANIFEST_JSON \notin NameSet(file)
    THEN [result |-> Raise("ValueError", "Invalid .stella file: missing manifest.json"),
          zf |-> "closed"]
    ELSE LET manifest == ReadManifest(file)
         IN  IF manifest.kind = "error" THEN [result |-> manifest, zf |-> "open"]
             ELSE IF extract_to # None /\ extract_fails
             THEN [result |-> Raise("OSError", "No space left on device"),
                   zf |-> "open"]
             ELSE [result |-> Returned([manifest |-> manifest.value]), zf |-> "open"]

\* read_stella_file(stella_path, internal_path)
read_stella_file(file, internal_path) ==
    IF file.kind # "zip" THEN OpenError(file)
    ELSE IF internal_path \notin NameSet(file)
    THEN Raise("KeyError", "There is no item named in the archive")
    ELSE Returned(ZipRead(file, internal_path))

(***************************************************************************)
(* The container, end to end: pack_stella(output_path, manifest, file_map, *)
(* include_checksums); then possibly one entry of the archive is changed;  *)
(* then one call reads the archive.                                        *)
(***************************************************************************)
NoCall == [op |-> "none"]

\* No Manifest or LevelJson is under test.
NoSchema == [pc |-> "idle"]

\* No voxel file is written or read.
NoVox ==
    /\ wr = [pc |-> "absent"]
    /\ stream = <<>>
    /\ rd = [ReadStart EXCEPT !.pc = "idle"]

PackCall ==
    /\ pk.pc = "start"
    /\ LET r == pack_stella(disk, pk.manifest, pk.file_map, pk.include_checksums)
       IN  /\ disk' = r.file
           /\ pk' = [pk EXCEPT !.pc = "done", !.result = r.result]
    /\ UNCHANGED <<voxvars, edited, call, sch>>

\* The archive with the content of its k-th member replaced.
EditEntry(file, k, data) ==
    Zip([file.entries EXCEPT ![k] = Entry(file.entries[k].path, data)])

\* Someone changes the content of one entry of the packed archive, other than
\* checksums.sha256, to different bytes.
Edit ==
    /\ pk.pc = "done" /\ pk.result.kind = "ok"
    /\ edited = None
    /\ call = NoCall
    /\ \E k \in DOMAIN disk.entries, data \in EditsIn :
          /\ disk.entries[k].path # CHECKSUMS_SHA256
          /\ disk.entries[k].data # data
          /\ disk' = EditEntry(disk, k, data)
          /\ edited' = Some(disk.entries[k].path)
    /\ UNCHANGED <<voxvars, pk, call, sch>>

VerifyCall ==
    /\ pk.pc = "done"
    /\ call = NoCall
    /\ call' = [op |-> "verify", result |-> verify_stella_checksums(disk)]
    /\ UNCHANGED <<voxvars, pk, disk, edited, sch>>

ValidateCall ==
    /\ pk.pc = "done"
    /\ call = NoCall
    /\ call' = [op |-> "validate", result |-> validate_stella(disk)]
    /\ UNCHANGED <<voxvars, pk, disk, edited, sch>>

UnpackCall ==
    /\ pk.pc = "done"
    /\ call = NoCall
    /\ edited = None
    /\ \E extract_to \in {None, Some(S_x)}, extract_fails \in BOOLEAN :
          LET r == unpack_stella(disk, extract_to, extract_fails)
          IN  call' = [op |-> "unpack", extract_to |-> extract_to,
                       extract_fails |-> extract_fails,
                       result |-> r.result, zf |-> r.zf]
    /\ UNCHANGED <<voxvars, pk, disk, edited, sch>>

ReadFileCall ==
    /\ pk.pc = "done"
    /\ call = NoCall
    /\ edited = None
    /\ \E internal_path \in DOMAIN pk.file_map \cup {MANIFEST_JSON, S_y} :
          call' = [op |-> "read", internal_path |-> internal_path,
                   result |-> read_stella_file(disk, internal_path)]
    /\ UNCHANGED <<voxvars, pk, disk, edited, sch>>

InitPack ==
    /\ NoVox
    /\ pk \in [pc : {"start"}, manifest : ManifestsIn, file_map : FileMapsIn,
               include_checksums : BOOLEAN, before : {Absent, OtherFile},
               result : {[kind |-> "none"]}]
    /\ disk = pk.before
    /\ edited = None
    /\ call = NoCall
    /\ sch = NoSchema

NextPack ==
    PackCall \/ Edit \/ VerifyCall \/ ValidateCall \/ UnpackCall \/ ReadFileCall

SpecPack == InitPack /\ [][NextPack]_vars

(***************************************************************************)
(* Claims about the codec.                                                 *)
(***************************************************************************)
DimsPositive(grid) == grid.shape[1] >= 1 /\ grid.shape[2] >= 1 /\ grid.shape[3] >= 1

\* The array given to write_rlevox is a bool grid.
BoolGrid(grid) == "dtype" \notin DOMAIN grid /\ Len(grid.shape) = 3

\* The distance between the float32 values around the float v.
SpacingF32(v) == F32Step * Pow2(Binade(IF v < 0 THEN 0 - v ELSE v))

\* v is a float32 value.
IsF32(v) == v % SpacingF32(v) = 0

\* r is the float32 nearest to the float v: a float32 value at most half the
\* float32 spacing away from v.
NearestF32(r, v) ==
    /\ r % SpacingF32(v) = 0
    /\ 2 * (IF r >= v THEN r - v ELSE v - r) <= SpacingF32(v)

\* C1, original statement: read_rlevox(write_rlevox(F, voxel_size, origin))
\* returns F cell for cell, and the very voxel_size and origin given to
\* write_rlevox.
C1_RoundTripExact ==
    (rd.pc = "done" /\ wr.pc = "done" /\ BoolGrid(wr.grid) /\ DimsPositive(wr.grid)) =>
        /\ rd.result.kind = "ok"
        /\ rd.result.grid = wr.grid
        /\ rd.result.voxel_size = wr.voxel_size
        /\ rd.result.origin = wr.origin

\* C1, amended: read_rlevox(write_rlevox(F, voxel_size, origin)) succeeds and
\* returns a grid of the same shape equal to F cell for cell; the voxel_size
\* and each origin component returned are the float32 values nearest to the
\* ones given (equal to them when they are float32 values).
C1_RoundTrip ==
    (rd.pc = "done" /\ wr.pc = "done" /\ BoolGrid(wr.grid) /\ DimsPositive(wr.grid)) =>
        /\ rd.result.kind = "ok"
        /\ rd.result.grid.shape = wr.grid.shape
        /\ \A i \in Idx(wr.grid.shape) : rd.result.grid.cells[i] = wr.grid.cells[i]
        /\ NearestF32(rd.result.voxel_size, wr.voxel_size)
        /\ \A k \in 1..3 : NearestF32(rd.result.origin[k], wr.origin[k])
        /\ IsF32(wr.voxel_size) => rd.result.voxel_size = wr.voxel_size
        /\ \A k \in 1..3 :
              IsF32(wr.origin[k]) => rd.result.origin[k] = wr.origin[k]

\* A 2 x 2 x 1 grid with a solid and an empty cell in its first row has been
\* written with a voxel_size that is no float32 value and a negative origin
\* component, and read back.
C1_Witness ==
    /\ rd.pc = "done" /\ wr.pc = "done"
    /\ rd.result.kind = "ok"
    /\ wr.grid.shape = <<2, 2, 1>>
    /\ wr.grid.cells[<<0, 0, 0>>] /\ ~wr.grid.cells[<<1, 0, 0>>]
    /\ wr.grid.cells[<<1, 1, 0>>]
    /\ wr.voxel_size % F32Step # 0
    /\ wr.origin[1] < 0
    /\ rd.nrec >= 3

\* C2: on a stream with a valid header, once a record has run past dim_x in
\* its row, read_rlevox has failed with a row-length-mismatch error (and so
\* returns no grid).
C2_OvershootRejected ==
    rd.overshoot =>
        /\ rd.pc = "done"
        /\ rd.result = Raise("ValueError", "Row length mismatch")


(***************************************************************************)
(* Claims about the container.                                             *)
(***************************************************************************)
\* The paths of the members of the archive on disk, in the order written.
Names == [i \in DOMAIN disk.entries |-> disk.entries[i].path]

Packed == pk.pc = "done" /\ pk.result.kind = "ok"

\* C3: when pack_stella has failed, the destination holds no file or exactly
\* the file that was there before the call.
C3_PackAtomic ==
    (pk.pc = "done" /\ pk.result.kind = "error") =>
        (disk = Absent \/ disk = pk.before)

\* C4: when unpack_stella has failed, the ZipFile it opened (if it opened
\* one) is closed.
C4_UnpackClosesOnError ==
    (call.op = "unpack" /\ call.result.kind = "error") => call.zf # "open"

\* C5: the members of a packed archive are manifest.json first, then every
\* other path except checksums.sha256 in ascending order, then
\* checksums.sha256 last when it exists; the paths are those of the payload
\* map, manifest.json and (with checksums) checksums.sha256, each once.
C5_MemberOrder ==
    Packed =>
        /\ Names[1] = MANIFEST_JSON
        /\ \A i, j \in DOMAIN Names : i < j => Names[i] # Names[j]
        /\ Range(Names) =
              DOMAIN pk.file_map \cup {MANIFEST_JSON}
              \cup (IF pk.include_checksums THEN {CHECKSUMS_SHA256} ELSE {})
        /\ CHECKSUMS_SHA256 \in Range(Names) => Names[Len(Names)] = CHECKSUMS_SHA256
        /\ \A i, j \in DOMAIN Names :
              (/\ i < j
               /\ {Names[i], Names[j]} \cap {MANIFEST_JSON, CHECKSUMS_SHA256} = {})
              => StrLess(Names[i], Names[j])

\* An archive of six members has been packed: a path that sorts before
\* manifest.json and before checksums.sha256 comes second, the three files of
\* level 0 follow, checksums.sha256 is last.
C5_Witness ==
    /\ Packed
    /\ Len(Names) = 6
    /\ Names[2] = S_assets_thumb
    /\ Names[6] = CHECKSUMS_SHA256

\* C6: with no reserved name in the payload map, unpack_stella on the packed
\* archive returns a Manifest equal to the one packed, field by field
\* (unless the storage fails while extracting), and read_stella_file returns
\* for each payload path the bytes given for it.
C6_PackUnpackIdentity ==
    (/\ Packed
     /\ edited = None
     /\ DOMAIN pk.file_map \cap {MANIFEST_JSON, CHECKSUMS_SHA256} = {})
    =>
        /\ (call.op = "unpack" /\ ~(call.extract_to # None /\ call.extract_fails))
              => /\ call.result = Returned([manifest |-> pk.manifest])
                 /\ call.zf = "open"
        /\ (call.op = "read" /\ call.internal_path \in DOMAIN pk.file_map)
              => call.result = Returned(pk.file_map[call.internal_path])

\* A manifest with a generator that has no git_commit, a world and an asset
\* has been packed with a payload of two entries or more, and unpacked.
C6_Witness ==
    /\ Packed /\ edited = None
    /\ DOMAIN pk.file_map \cap {MANIFEST_JSON, CHECKSUMS_SHA256} = {}
    /\ Cardinality(DOMAIN pk.file_map) >= 2
    /\ pk.manifest.generator # None /\ pk.manifest.generator[1].git_commit = None
    /\ pk.manifest.world # None
    /\ pk.manifest.assets # EmptyDict
    /\ call.op = "unpack" /\ call.result.kind = "ok"

\* C7: after one entry other than checksums.sha256 of an archive packed with
\* checksums was changed to different bytes, verify_stella_checksums returns
\* ok = false with exactly one error, the checksum mismatch of that entry.
C7_OneMismatch ==
    (Packed /\ pk.include_checksums /\ edited # None /\ call.op = "verify") =>
        call.result =
            Returned([ok |-> FALSE,
                      errors |-> <<Err("Checksum mismatch for ", edited[1])>>])

\* C8: verify_stella_checksums on a freshly packed archive returns ok = true,
\* with no error when checksums were included and with exactly the
\* no-checksums note when they were not.
C8_FreshArchiveVerifies ==
    (Packed /\ edited = None /\ call.op = "verify") =>
        call.result =
            Returned([ok |-> TRUE,
                      errors |->
                          IF pk.include_checksums THEN <<>>
                          ELSE <<Err("No checksums.sha256 file found (not an error)",
                                     <<>>)>>])

\* C10: the manifest.json entry of a packed archive is the manifest's
\* to_json() text, whatever the payload map holds.
C10_ManifestEntryCanonical ==
    (Packed /\ edited = None) => ZipRead(disk, MANIFEST_JSON) = to_json(pk.manifest)

\* The archive on disk can be opened, its manifest.json parses and declares
\* a level list that is not empty, and validate_stella has been called on it.
Validated ==
    /\ call.op = "validate"
    /\ disk.kind = "zip"
    /\ MANIFEST_JSON \in NameSet(disk)
    /\ ZipRead(disk, MANIFEST_JSON).kind = "json"
    /\ "levels" \in DOMAIN ZipRead(disk, MANIFEST_JSON).doc
    /\ ZipRead(disk, MANIFEST_JSON).doc.levels # <<>>

DeclaredLevels == ZipRead(disk, MANIFEST_JSON).doc.levels

Members == {S_level_json, S_render_glb, S_collision_rlevox}

\* How many errors of the call say that path p is a missing required file
\* (none when the call raised).
MissingReports(p) ==
    IF call.result.kind # "ok" THEN 0 ELSE
    Cardinality({i \in DOMAIN call.result.value.errors :
                    call.result.value.errors[i] = Err("Missing required file: ", p)})

ChecksumsAbsentOrValid ==
    \/ CHECKSUMS_SHA256 \notin NameSet(disk)
    \/ /\ verify_stella_checksums(disk).kind = "ok"
       /\ verify_stella_checksums(disk).value.ok

\* The (level entry, member) pairs whose file the archive lacks.
MissingEntries ==
    {e \in (DOMAIN DeclaredLevels) \X Members :
        LevelFile(DeclaredLevels[e[1]].id, e[2]) \notin NameSet(disk)}

\* The errors of the claim, counted per entry of the level list: one
\* 'Missing required file' error for each entry and member whose file is
\* absent, none for a file that is present; with checksums absent or valid
\* these are the only errors and ok is true exactly when every declared
\* level has its three files.
OneErrorPerEntryAndMember ==
    /\ \A k \in DOMAIN DeclaredLevels : \A member \in Members :
          LET path == LevelFile(DeclaredLevels[k].id, member)
          IN  MissingReports(path) =
                 Cardinality({e \in MissingEntries :
                                 LevelFile(DeclaredLevels[e[1]].id, e[2]) = path})
    /\ ChecksumsAbsentOrValid =>
          /\ call.result.kind = "ok"
          /\ Len(call.result.value.errors) = Cardinality(MissingEntries)
          /\ call.result.value.ok = (MissingEntries = {})

\* C9: on an openable archive whose manifest.json parses and declares a
\* level list that is not empty, validate_stella reports one 'Missing
\* required file' error for each declared level and member whose file is
\* absent (an id declared twice is let to be reported twice) and none for a
\* file that is present; with checksums absent or valid these are the only
\* errors and ok is true exactly when every declared level has its three
\* files.
C9_ValidationCompleteness == Validated => OneErrorPerEntryAndMember

\* C9, for the calls that return: the same statement holds whenever
\* validate_stella returns a result instead of raising.
C9_CompleteWhenReturned ==
    (Validated /\ call.result.kind = "ok") => OneErrorPerEntryAndMember

\* C9, counting per level id: exactly one error for each pair (declared
\* level id, member) whose file is absent, also when the id is declared
\* twice.
C9_OneErrorPerIdAndMember ==
    (Validated /\ call.result.kind = "ok") =>
        \A k \in DOMAIN DeclaredLevels : \A member \in Members :
            LET path == LevelFile(DeclaredLevels[k].id, member)
            IN  MissingReports(path) = (IF path \in NameSet(disk) THEN 0 ELSE 1)

\* The lines of the checksums.sha256 entry of the archive on disk.
ChecksumFileLines ==
    Split(Utf8Decode(ZipRead(disk, CHECKSUMS_SHA256).data).value, S_newline)

\* The entries of the archive other than checksums.sha256.
OtherEntries ==
    {i \in DOMAIN disk.entries : disk.entries[i].path # CHECKSUMS_SHA256}

\* C11: in an archive packed with checksums, checksums.sha256 has exactly one
\* line '<sha256 of the stored bytes>  <path>' for every entry other than
\* itself, no line for checksums.sha256, no other line, and its lines are in
\* ascending order of path.
C11_ChecksumCoverage ==
    (Packed /\ pk.include_checksums /\ edited = None) =>
        /\ \A i \in OtherEntries :
              Cardinality({k \in DOMAIN ChecksumFileLines :
                  ChecksumFileLines[k] =
                      compute_sha256(disk.entries[i].data) \o S_two_spaces
                      \o disk.entries[i].path}) = 1
        /\ Len(ChecksumFileLines) = Cardinality(OtherEntries)
        /\ \A k \in DOMAIN ChecksumFileLines :
              Split1(ChecksumFileLines[k], S_two_spaces)[2] # CHECKSUMS_SHA256
        /\ \A k, l \in DOMAIN ChecksumFileLines :
              k < l => StrLess(Split1(ChecksumFileLines[k], S_two_spaces)[2],
                               Split1(ChecksumFileLines[l], S_two_spaces)[2])

(***************************************************************************)
(* The readers on any archive: the file at the path is a ZIP archive       *)
(* written by some other program, with or without manifest.json, the files *)
(* of level 0 and checksums.sha256; one call reads it.                     *)
(***************************************************************************)
\* The content of manifest.json when the archive has one: what to_json
\* writes for a manifest, bytes that are no JSON, or bytes that are no UTF-8.
ManifestContentsIn ==
    {to_json(m) : m \in ManifestsIn} \cup {Bytes(S_x), Bytes(S_not_utf8)}

\* The entries of an archive for the paths of files, in ascending order.
EntriesOf(files) ==
    LET paths == Sorted(DOMAIN files)
    IN  [i \in 1..Len(paths) |-> Entry(paths[i], files[paths[i]])]

\* The contents of checksums.sha256 when the archive has one: the lines
\* pack_stella would write for the other files, a line without separator, a
\* line for a path the archive lacks, bytes that are no UTF-8.
ChecksumContentsIn(files) ==
    {ChecksumContent(files), Bytes(S_x),
     Bytes(ChecksumLine(compute_sha256(Bytes(S_x)), S_y)), Bytes(S_not_utf8)}

\* The files of an archive other than checksums.sha256.
ArchiveFilesIn ==
    {Restrict((MANIFEST_JSON :> c) @@ TriadIn, D) :
        c \in ManifestContentsIn,
        D \in SUBSET (DOMAIN TriadIn \cup {MANIFEST_JSON})}

ArchivesOf(files) ==
    {Zip(EntriesOf(files) \o last) :
        last \in {<<>>} \cup {<<Entry(CHECKSUMS_SHA256, c)>> :
                                 c \in ChecksumContentsIn(files)}}

ArchivesIn == UNION {ArchivesOf(files) : files \in ArchiveFilesIn}

\* No pack_stella call is made or pending: another program wrote the file.
NoPack == [pc |-> "done", result |-> [kind |-> "none"], file_map |-> EmptyDict]

InitArchive ==
    /\ NoVox
    /\ pk = NoPack
    /\ disk \in ArchivesIn
    /\ edited = None
    /\ call = NoCall
    /\ sch = NoSchema

NextArchive == VerifyCall \/ ValidateCall \/ UnpackCall \/ ReadFileCall

SpecArchive == InitArchive /\ [][NextArchive]_vars

\* C12: validate_stella on an openable archive without a manifest.json entry
\* returns ok = false with exactly one error, the missing-manifest error,
\* whatever else the archive holds.
C12_MissingManifestOnly ==
    (call.op = "validate" /\ disk.kind = "zip" /\ MANIFEST_JSON \notin NameSet(disk))
    => call.result =
          Returned([ok |-> FALSE,
                    errors |-> <<Err("Missing required file: manifest.json", <<>>)>>])

\* C13: unpack_stella on an archive without a manifest.json entry raises the
\* missing-manifest error and hands out no handle (the ZipFile is closed);
\* on an archive whose manifest.json parses it returns the Manifest that
\* manifest.json describes and leaves the ZipFile open for reading the
\* entries (unless the storage fails while extracting).
C13_UnpackResult ==
    (call.op = "unpack" /\ disk.kind = "zip") =>
        /\ MANIFEST_JSON \notin NameSet(disk) =>
              /\ call.result =
                    Raise("ValueError", "Invalid .stella file: missing manifest.json")
              /\ call.zf = "closed"
        /\ (/\ MANIFEST_JSON \in NameSet(disk)
            /\ ZipRead(disk, MANIFEST_JSON).kind = "json"
            /\ ~(call.extract_to # None /\ call.extract_fails))
           => /\ call.result.kind = "ok"
              /\ call.result.value.manifest \in ManifestsIn
              /\ to_json(call.result.value.manifest) = ZipRead(disk, MANIFEST_JSON)
              /\ call.zf = "open"

\* An archive with a manifest that has a generator, a world and assets, two
\* files of level 0 and checksums.sha256 has been unpacked into a directory.
C13_Witness ==
    /\ call.op = "unpack" /\ call.result.kind = "ok" /\ call.zf = "open"
    /\ call.extract_to # None
    /\ pk = NoPack
    /\ Len(disk.entries) = 4
    /\ CHECKSUMS_SHA256 \in NameSet(disk)
    /\ call.result.value.manifest.world # None


(***************************************************************************)
(* The schema alone: a Manifest built in memory is serialised, parsed and  *)
(* validated; a JSON text is parsed.                                       *)
(***************************************************************************)
SchemaLevelsIn ==
    {Level(S_id0, LevelFile(S_id0, S_level_json), None),
     Level(S_id1, LevelFile(S_id1, S_level_json), Some(S_lobby)),
     Level(<<>>, LevelFile(S_id0, S_level_json), None),
     Level(S_id0, <<>>, None),
     Level(<<>>, <<>>, None)}

SchemaLevelListsIn == UNION {[1..n -> SchemaLevelsIn] : n \in 0..MaxLevels}

\* generator, world and assets together: all absent, all present, a
\* generator with a git_commit only.
OptionalsIn ==
    {[generator |-> None, world |-> None, assets |-> EmptyDict],
     [generator |-> Some(Generator(S_stella_cli, S_0_1_0, None)),
      world |-> Some(World(S_title, <<S_tag>>, DefaultPrivacy)),
      assets |-> S_thumbnail :> S_assets_thumb],
     [generator |-> Some(Generator(S_stella_cli, S_0_1_0, Some(S_abc123))),
      world |-> None, assets |-> EmptyDict]}

SchemaManifestsIn ==
    {[format |-> format, version |-> version, created_utc |-> S_created,
      units |-> S_meters, axis |-> Axis(up, S_minus_Z, handedness),
      levels |-> levels, generator |-> opt.generator, world |-> opt.world,
      assets |-> opt.assets] :
        format \in {S_stella_world, S_x}, version \in {1, 2},
        up \in {S_Y, S_Z, S_x}, handedness \in {S_right, S_left, S_x},
        levels \in SchemaLevelListsIn, opt \in OptionalsIn}

\* The LevelJson objects: each field takes its default or one other value,
\* the capture is absent or has any of its optional members.
S_navmesh == <<110, 97, 118, 109, 101, 115, 104>>                      \* "navmesh"
S_mesh_glb == <<109, 101, 115, 104, 46, 103, 108, 98>>                 \* "mesh.glb"

CapturesIn ==
    {None,
     Some(CaptureInfo(S_unknown, None, None)),
     Some(CaptureInfo(S_video, Some(30), None)),
     Some(CaptureInfo(S_video, None, Some(S_notes))),
     Some(CaptureInfo(S_video, Some(30), Some(S_notes)))}

SchemaLevelJsonsIn ==
    {[level_version |-> level_version, name |-> name, scale |-> scale,
      spawn |-> spawn, render |-> render, collision |-> collision,
      navigation |-> navigation, capture |-> capture] :
        level_version \in {1, 2}, name \in {S_Level_0, S_lobby},
        scale \in {DefaultScale, [meters_per_unit |-> 50]},
        spawn \in {DefaultSpawn, Spawn(<<100, 0, -250>>, 9000)},
        render \in {DefaultRender, RenderAsset(S_glb, S_mesh_glb)},
        collision \in {DefaultCollision,
                       CollisionAsset(S_rlevox, S_collision_rlevox,
                                      PlayerCollision(180, 25, 40))},
        navigation \in {DefaultNavigation, NavigationAsset(S_navmesh, Some(S_nav_uri))},
        capture \in CapturesIn}

\* An object in memory, before any call on it.
Given(class, x) ==
    [pc |-> "given", class |-> class, obj |-> Some(x), text |-> None,
     parsed |-> NoResult, errors |-> None, base |-> None, extra |-> None,
     wrong |-> None]

\* A Manifest object m in memory, before any call on it.
GivenManifest(m) == Given("Manifest", m)

\* A JSON text written by somebody else: the document doc, which is the
\* to_dict of the object base with one unknown field added at the place
\* extra, or with a value of another type in the known field wrong.
GivenText(class, doc, base, extra, wrong) ==
    [pc |-> "given", class |-> class, obj |-> None, text |-> Some(JsonBytes(doc)),
     parsed |-> NoResult, errors |-> None, base |-> Some(base), extra |-> extra,
     wrong |-> wrong]

\* The unknown field.
Unknown == [extra |-> 1]

\* The places of a manifest document where an object is.
ManifestPlaces(m) ==
    {"top", "axis"}
    \cup (IF m.levels # <<>> THEN {"level"} ELSE {})
    \cup (IF m.generator # None THEN {"generator"} ELSE {})
    \cup (IF m.world # None THEN {"world"} ELSE {})

\* The places of a level document where an object is.
LevelJsonPlaces(l) ==
    {"top", "spawn", "render", "collision", "player", "navigation"}
    \cup (IF l.capture # None THEN {"capture"} ELSE {})

\* The document d with the unknown field added to the object at a place.
AddExtra(d, place) ==
    CASE place = "top" -> d @@ Unknown
      [] place = "axis" -> [d EXCEPT !.axis = @ @@ Unknown]
      [] place = "level" -> [d EXCEPT !.levels[1] = @ @@ Unknown]
      [] place = "generator" -> [d EXCEPT !.generator = @ @@ Unknown]
      [] place = "world" -> [d EXCEPT !.world = @ @@ Unknown]
      [] place = "spawn" -> [d EXCEPT !.spawn = @ @@ Unknown]
      [] place = "render" -> [d EXCEPT !.render = @ @@ Unknown]
      [] place = "collision" -> [d EXCEPT !.collision = @ @@ Unknown]
      [] place = "player" -> [d EXCEPT !.collision.player = @ @@ Unknown]
      [] place = "navigation" -> [d EXCEPT !.navigation = @ @@ Unknown]
      [] place = "capture" -> [d EXCEPT !.capture = @ @@ Unknown]

\* The manifest document d with a value of another primitive type in a
\* known field: the version as the string "1", the format as the number 7.
WrongType(d, field) ==
    CASE field = "version" -> [d EXCEPT !.version = S_id1]
      [] field = "format" -> [d EXCEPT !.format = 7]

\* The manifests the texts are made from: those of SchemaManifestsIn with
\* the format, the version and the axis of the defaults.
TextManifestsIn ==
    {m \in SchemaManifestsIn :
        m.format = S_stella_world /\ m.version = 1 /\ m.axis = DefaultAxis}

\* The level objects the texts are made from.
TextLevelJsonsIn ==
    {l \in SchemaLevelJsonsIn :
        /\ l.level_version = 1 /\ l.name = S_Level_0 /\ l.scale = DefaultScale
        /\ l.spawn = DefaultSpawn /\ l.render = DefaultRender}

\* The texts with an unknown field.
ExtraTextsIn ==
    UNION {{GivenText("Manifest", AddExtra(to_dict(m), place), m, Some(place), None) :
                place \in ManifestPlaces(m)} : m \in TextManifestsIn}
    \cup UNION {{GivenText("LevelJson", AddExtra(LevelJson_to_dict(l), place), l,
                           Some(place), None) :
                    place \in LevelJsonPlaces(l)} : l \in TextLevelJsonsIn}

\* The texts with a value of another type in a known field.
WrongTextsIn(field) ==
    {GivenText("Manifest", WrongType(to_dict(m), field), m, None, Some(field)) :
        m \in TextManifestsIn}

\* m.to_json()
ManifestToJson ==
    /\ sch.pc = "given" /\ sch.class = "Manifest"
    /\ sch.obj # None /\ sch.text = None
    /\ sch' = [sch EXCEPT !.text = Some(to_json(sch.obj[1]))]
    /\ UNCHANGED <<voxvars, pk, disk, edited, call>>

\* Manifest.from_json(text)
ManifestFromJson ==
    /\ sch.pc = "given" /\ sch.class = "Manifest"
    /\ sch.text # None /\ sch.parsed = NoResult
    /\ sch' = [sch EXCEPT !.parsed = from_json(sch.text[1])]
    /\ UNCHANGED <<voxvars, pk, disk, edited, call>>

\* m.validate()
ManifestValidate ==
    /\ sch.pc = "given" /\ sch.class = "Manifest"
    /\ sch.obj # None /\ sch.errors = None
    /\ sch' = [sch EXCEPT !.errors = Some(validate(sch.obj[1]))]
    /\ UNCHANGED <<voxvars, pk, disk, edited, call>>

\* l.to_json()
LevelToJson ==
    /\ sch.pc = "given" /\ sch.class = "LevelJson"
    /\ sch.obj # None /\ sch.text = None
    /\ sch' = [sch EXCEPT !.text = Some(LevelJson_to_json(sch.obj[1]))]
    /\ UNCHANGED <<voxvars, pk, disk, edited, call>>

\* LevelJson.from_json(text)
LevelFromJson ==
    /\ sch.pc = "given" /\ sch.class = "LevelJson"
    /\ sch.text # None /\ sch.parsed = NoResult
    /\ sch' = [sch EXCEPT !.parsed = LevelJson_from_json(sch.text[1])]
    /\ UNCHANGED <<voxvars, pk, disk, edited, call>>

InitSchema ==
    /\ NoVox
    /\ pk = NoPack /\ disk = Absent /\ edited = None /\ call = NoCall
    /\ \/ sch \in {GivenManifest(m) : m \in SchemaManifestsIn}
               \cup {Given("LevelJson", l) : l \in SchemaLevelJsonsIn}
               \cup ExtraTextsIn
       \/ \E field \in {"version", "format"} : sch \in WrongTextsIn(field)

NextSchema ==
    ManifestToJson \/ ManifestFromJson \/ ManifestValidate \/ LevelToJson \/ LevelFromJson

SpecSchema == InitSchema /\ [][NextSchema]_vars


(***************************************************************************)
(* Claims about the schema.                                                *)
(***************************************************************************)
\* <<e>> when the condition c is violated, nothing otherwise.
Violation(c, e) == IF c THEN <<e>> ELSE <<>>

\* The violations of the first n levels: those of the levels before the
\* n-th, then the empty id of the n-th, then its empty path.
RECURSIVE LevelViolations(_, _)
LevelViolations(levels, n) ==
    IF n = 0 THEN <<>>
    ELSE LevelViolations(levels, n - 1)
         \o Violation(levels[n].id = <<>>,
                      Err("Level missing required 'id' field", <<>>))
         \o Violation(levels[n].path = <<>>,
                      Err("Level missing required 'path' field: ", levels[n].id))

\* The violations of a manifest in the order the specification fixes.
ManifestViolations(m) ==
    Violation(m.format # S_stella_world, Err("Invalid format: ", m.format))
    \o Violation(m.version # 1, Err("Unsupported version: ", IntToStr(m.version)))
    \o Violation(Len(m.levels) = 0,
                 Err("Manifest must contain at least one level", <<>>))
    \o LevelViolations(m.levels, Len(m.levels))
    \o Violation(m.axis.up # S_Y /\ m.axis.up # S_Z,
                 Err("Invalid up axis: ", m.axis.up))
    \o Violation(m.axis.handedness # S_left /\ m.axis.handedness # S_right,
                 Err("Invalid handedness: ", m.axis.handedness))

\* C14: Manifest.validate returns (it does not raise) the violations in the
\* fixed order format, version, empty level list, per level empty id then
\* empty path, axis.up, axis.handedness; the list is empty exactly when no
\* condition is violated; and the call leaves the manifest as it was.
C14_ValidateOrder ==
    /\ [](sch.pc = "given" /\ sch.errors # None =>
            /\ sch.errors[1] = ManifestViolations(sch.obj[1])
            /\ (sch.errors[1] = <<>>) =
                  (/\ sch.obj[1].format = S_stella_world
                   /\ sch.obj[1].version = 1
                   /\ sch.obj[1].levels # <<>>
                   /\ \A i \in DOMAIN sch.obj[1].levels :
                         /\ sch.obj[1].levels[i].id # <<>>
                         /\ sch.obj[1].levels[i].path # <<>>
                   /\ sch.obj[1].axis.up \in {S_Y, S_Z}
                   /\ sch.obj[1].axis.handedness \in {S_left, S_right}))
    /\ [][ManifestValidate => sch'.obj = sch.obj]_vars

\* A manifest with a wrong format and version, a first level without id and
\* path, a second level, and a wrong up axis and handedness has been
\* validated: six errors or more.
C14_Witness ==
    /\ sch.pc = "given" /\ sch.errors # None
    /\ Len(sch.obj[1].levels) = 2
    /\ sch.obj[1].levels[1].id = <<>> /\ sch.obj[1].levels[1].path = <<>>
    /\ Len(sch.errors[1]) >= 6

\* C15: Manifest.from_json and LevelJson.from_json, given a well-formed
\* document with one unknown field at the top level or inside a nested
\* object, do not fail: they return what they return for the document
\* without the unknown field.
C15_UnknownFieldsIgnored ==
    sch.pc = "given" /\ sch.extra # None /\ sch.parsed # NoResult =>
        sch.parsed = Returned(sch.base[1])

\* C16: Manifest.from_json, given a document where a known field has a value
\* of another primitive type, fails and returns no Manifest.
C16_WrongTypeRejected ==
    sch.pc = "given" /\ sch.wrong # None /\ sch.parsed # NoResult =>
        sch.parsed.kind = "error"

\* The optional fields of a Manifest m that the document doc has a key for
\* are present in m.
ManifestKeysPresent(m, doc) ==
    /\ \A i \in DOMAIN doc.levels :
          "name" \in DOMAIN doc.levels[i] => m.levels[i].name # None
    /\ "generator" \in DOMAIN doc =>
          /\ m.generator # None
          /\ "git_commit" \in DOMAIN doc.generator => m.generator[1].git_commit # None
    /\ "world" \in DOMAIN doc => m.world # None
    /\ "assets" \in DOMAIN doc => m.assets # EmptyDict

\* The optional fields of a LevelJson l that the document doc has a key for
\* are present in l.
LevelJsonKeysPresent(l, doc) ==
    /\ "uri" \in DOMAIN doc.navigation => l.navigation.uri # None
    /\ "capture" \in DOMAIN doc =>
          /\ l.capture # None
          /\ "source_fps" \in DOMAIN doc.capture => l.capture[1].source_fps # None
          /\ "notes" \in DOMAIN doc.capture => l.capture[1].notes # None

\* C17: for every Manifest and every LevelJson x, the document to_json
\* writes has no key for an optional field that is absent in x (a level
\* name, the generator, its git_commit, the world, empty assets, the
\* navigation uri, the capture and its optional members), so no null is
\* written; and from_json of that document returns an object equal to x.
C17_SchemaRoundTrip ==
    sch.pc = "given" /\ sch.obj # None =>
        /\ sch.text # None =>
              IF sch.class = "Manifest"
              THEN ManifestKeysPresent(sch.obj[1], sch.text[1].doc)
              ELSE LevelJsonKeysPresent(sch.obj[1], sch.text[1].doc)
        /\ sch.parsed # NoResult => sch.parsed = Returned(sch.obj[1])

\* A LevelJson without a navigation uri, with a capture that has notes but
\* no source_fps, has been written and parsed back.
C17_Witness ==
    /\ sch.pc = "given" /\ sch.class = "LevelJson" /\ sch.obj # None
    /\ sch.obj[1].navigation.uri = None
    /\ sch.obj[1].capture # None
    /\ sch.obj[1].capture[1].source_fps = None
    /\ sch.obj[1].capture[1].notes # None
    /\ sch.parsed.kind = "ok"


(***************************************************************************)
(* The encoder on one long row: the body of the loops of write_rlevox      *)
(* (lines 101-111) for one row grid[:, y, z], cell by cell.  The row is    *)
(* given by its maximal spans: spans[j] cells of one value, the first span *)
(* of the value first, each next span of the other value.                  *)
(***************************************************************************)
\* The number of cells of the first n spans.
RECURSIVE Cells(_, _)
Cells(spans, n) == IF n = 0 THEN 0 ELSE Cells(spans, n - 1) + spans[n]

\* The span the cell at index i (from 0) is in.
SpanAt(spans, i) ==
    CHOOSE j \in DOMAIN spans : Cells(spans, j - 1) <= i /\ i < Cells(spans, j)

\* The value of the j-th span.
SpanValue(first, j) == (first + j - 1) % 2

\* int(row[i])
CellAt(spans, first, i) == SpanValue(first, SpanAt(spans, i))

\* The rows: spans of 1 cell, of MaxRunLength cells, of one more, and of
\* more than two records, alone and next to a span of 1 or 2 cells.
SpanLengthsIn == {1, MaxRunLength, MaxRunLength + 1, 2 * MaxRunLength + 1}

RowSpansIn ==
    {<<>>, <<1, 1, 1>>, <<2, 1, 2>>}
    \cup {<<a>> : a \in SpanLengthsIn}
    \cup {<<1, a>> : a \in SpanLengthsIn}
    \cup {<<a, 2>> : a \in SpanLengthsIn}
    \cup {<<1, a, 1>> : a \in SpanLengthsIn}

\* runs = _encode_rle_row(row), lines 204-211: an empty row has no runs;
\* otherwise the loop starts at index 1 with the value of row[0].
EncodeStart ==
    /\ wr.pc = "encode"
    /\ wr' = IF wr.spans = <<>>
             THEN [wr EXCEPT !.pc = "write"]
             ELSE [wr EXCEPT !.pc = "loop", !.i = 1,
                             !.current_value = CellAt(wr.spans, wr.first, 0),
                             !.run_length = 1]
    /\ UNCHANGED <<stream, rd, pkgvars>>

\* One pass of the loop of lines 213-219.
EncodeCell ==
    /\ wr.pc = "loop" /\ wr.i < Cells(wr.spans, Len(wr.spans))
    /\ LET value == CellAt(wr.spans, wr.first, wr.i)
       IN  wr' = IF value = wr.current_value
                 THEN [wr EXCEPT !.i = @ + 1, !.run_length = @ + 1]
                 ELSE [wr EXCEPT !.i = @ + 1,
                                 !.runs = Append(@, <<wr.run_length, wr.current_value>>),
                                 !.current_value = value,
                                 !.run_length = 1]
    /\ UNCHANGED <<stream, rd, pkgvars>>

\* Line 221, after the loop: the last run.
EncodeEnd ==
    /\ wr.pc = "loop" /\ wr.i >= Cells(wr.spans, Len(wr.spans))
    /\ wr' = [wr EXCEPT !.pc = "write",
                        !.runs = Append(@, <<wr.run_length, wr.current_value>>)]
    /\ UNCHANGED <<stream, rd, pkgvars>>

\* Lines 103-111: the records of the runs are written.
WriteRow ==
    /\ wr.pc = "write"
    /\ wr' = [wr EXCEPT !.pc = "written", !.written = WriteRuns(wr.runs)]
    /\ UNCHANGED <<stream, rd, pkgvars>>

InitEncode ==
    /\ wr \in [pc : {"encode"}, spans : RowSpansIn, first : {0, 1}, i : {0},
               runs : {<<>>}, current_value : {0}, run_length : {0},
               written : {<<>>}]
    /\ stream = <<>>
    /\ rd = [ReadStart EXCEPT !.pc = "idle"]
    /\ pk = NoPack /\ disk = Absent /\ edited = None /\ call = NoCall
    /\ sch = NoSchema

NextEncode == EncodeStart \/ EncodeCell \/ EncodeEnd \/ WriteRow

SpecEncode == InitEncode /\ [][NextEncode]_vars


(***************************************************************************)
(* Claims about the encoder.                                               *)
(***************************************************************************)
\* The records in the bytes written: run_length, value, flags.
RecordsIn(bytes) ==
    [k \in 1..(Len(bytes) \div 4) |->
        [run_length |-> bytes[4 * k - 3] + 256 * bytes[4 * k - 2],
         value |-> bytes[4 * k - 1],
         flags |-> bytes[4 * k]]]

\* ceil(L / 65535)
RecordsFor(L) == (L + MaxRunLength - 1) \div MaxRunLength

\* The number of records of the first n spans.
RECURSIVE RecordsBefore(_, _)
RecordsBefore(spans, n) ==
    IF n = 0 THEN 0 ELSE RecordsBefore(spans, n - 1) + RecordsFor(spans[n])

\* The sum of the run lengths of the records a..b.
RECURSIVE RunSum(_, _, _)
RunSum(recs, a, b) ==
    IF a > b THEN 0 ELSE recs[a].run_length + RunSum(recs, a + 1, b)

\* C18: the records written for a row are, span after span, exactly
\* ceil(L / 65535) records of the value of the span, each with a run_length
\* in 1..65535 and flags 0, whose lengths sum to L; so k spans of at most
\* 65535 cells give k records, two neighbours have the same value only when
\* the earlier one has run_length 65535, and the lengths sum to dim_x.
C18_RunsMinimalAndSplit ==
    wr.pc = "written" =>
        LET spans == wr.spans
            recs == RecordsIn(wr.written)
        IN  /\ Len(wr.written) % 4 = 0
            /\ Len(recs) = RecordsBefore(spans, Len(spans))
            /\ \A j \in DOMAIN spans :
                  LET a == RecordsBefore(spans, j - 1) + 1
                      b == RecordsBefore(spans, j)
                  IN  /\ b - a + 1 = RecordsFor(spans[j])
                      /\ \A k \in a..b :
                            /\ recs[k].value = SpanValue(wr.first, j)
                            /\ recs[k].run_length \in 1..MaxRunLength
                            /\ recs[k].flags = 0
                      /\ RunSum(recs, a, b) = spans[j]
            /\ ((\A j \in DOMAIN spans : spans[j] <= MaxRunLength)
                    => Len(recs) = Len(spans))
            /\ \A k \in 1..(Len(recs) - 1) :
                  recs[k].value = recs[k + 1].value => recs[k].run_length = MaxRunLength
            /\ RunSum(recs, 1, Len(recs)) = Cells(spans, Len(spans))

\* A row of one cell, 65536 cells of the other value and one more cell has
\* been written: four records.
C18_Witness ==
    /\ wr.pc = "written"
    /\ wr.spans = <<1, MaxRunLength + 1, 1>>
    /\ Len(wr.written) = 16


(***************************************************************************)
(* Claims about the decoder on any file.                                   *)
(***************************************************************************)
\* The tags and dimensions in the first bytes of a stream.
MagicOf(s) == SubSeq(s, 1, 4)
VersionOf(s) == s[5] + 256 * s[6]
EncodingOf(s) == SubSeq(s, 37, 40)
DimOf(s, n) ==
    s[4 * n + 5] + 256 * s[4 * n + 6] + 65536 * s[4 * n + 7] + 16777216 * s[4 * n + 8]

\* The stream has a whole header with the tags of the format.
ValidHeader(s) ==
    /\ Len(s) >= HEADER_SIZE
    /\ MagicOf(s) = MAGIC /\ VersionOf(s) = VERSION /\ EncodingOf(s) = ENCODING
    /\ s[7] + 256 * s[8] = HEADER_SIZE

\* The first defect of a payload from offset p, with rows_left rows to fill
\* of which the current one has x cells: "eof" when fewer than 4 bytes are
\* left while a row is incomplete, "zero" when the record there has
\* run_length 0, "none" when every row gets its dim_x cells.
RECURSIVE FirstDefect(_, _, _, _, _)
FirstDefect(payload, p, rows_left, x, dim_x) ==
    IF rows_left = 0 \/ dim_x = 0 THEN "none"
    ELSE IF Len(payload) - p < 4 THEN "eof"
    ELSE LET n == payload[p + 1] + 256 * payload[p + 2]
         IN  IF n = 0 THEN "zero"
             ELSE IF x + n >= dim_x
                  THEN FirstDefect(payload, p + 4, rows_left - 1, 0, dim_x)
                  ELSE FirstDefect(payload, p + 4, rows_left, x + n, dim_x)

DefectOf(s) ==
    FirstDefect(SubSeq(s, HEADER_SIZE + 1, Len(s)), 0, DimOf(s, 2) * DimOf(s, 3), 0,
                DimOf(s, 1))

\* C19: on a stream with a valid header, read_rlevox ends with the error of
\* the first defect of the payload in row order (z outer, y inner) and
\* returns no grid: an unexpected-EOF error when the payload ends before a
\* row has its dim_x cells, an invalid-run error when a record read in an
\* incomplete row has run_length 0.
C19_CorruptPayloadRejected ==
    rd.pc = "done" /\ ValidHeader(stream) =>
        /\ DefectOf(stream) = "eof" =>
              rd.result = Raise("ValueError", "Unexpected EOF")
        /\ DefectOf(stream) = "zero" =>
              rd.result = Raise("ValueError", "Invalid run_length=0")

\* A stream whose payload ends inside a record, in a row after the first,
\* has been read: two records, then the end of the file.
C19_Witness ==
    /\ rd.pc = "done" /\ ValidHeader(stream)
    /\ (Len(stream) - HEADER_SIZE) % 4 # 0
    /\ rd.y + rd.z > 0 /\ rd.nrec >= 2
    /\ rd.result = Raise("ValueError", "Unexpected EOF")

\* C20: read_rlevox fails with a bad-magic error when the first 4 bytes are
\* not the magic, with an unsupported-version error when the magic is right
\* and the version is not 1, with an unsupported-encoding error when magic
\* and version are right and the encoding tag is not; in each case before
\* any record of the payload is read.
C20_HeaderTagChecks ==
    rd.pc = "done" /\ Len(stream) >= HEADER_SIZE =>
        /\ MagicOf(stream) # MAGIC =>
              rd.result = Raise("ValueError", "Invalid magic") /\ rd.nrec = 0
        /\ MagicOf(stream) = MAGIC /\ VersionOf(stream) # VERSION =>
              rd.result = Raise("ValueError", "Unsupported version") /\ rd.nrec = 0
        /\ MagicOf(stream) = MAGIC /\ VersionOf(stream) = VERSION
              /\ EncodingOf(stream) # ENCODING =>
              rd.result = Raise("ValueError", "Unsupported encoding") /\ rd.nrec = 0

\* A stream with the right magic, a wrong version, a wrong encoding and a
\* record in its payload has been rejected for its version.
C20_Witness ==
    /\ rd.pc = "done" /\ Len(stream) > HEADER_SIZE
    /\ MagicOf(stream) = MAGIC /\ VersionOf(stream) # VERSION
    /\ EncodingOf(stream) # ENCODING
    /\ rd.result = Raise("ValueError", "Unsupported version")



(***************************************************************************)
(* The decoder on a file with a longer header: the file write_rlevox       *)
(* leaves, with another header_size and other bytes between the 44 fixed   *)
(* bytes and the payload.                                                  *)
(***************************************************************************)
FixedHeaderLen == 44     \* the bytes read by lines 136-160, written by lines 74-88

\* n bytes repeating a pattern.
Fill(n, pattern) == [i \in 1..n |-> pattern[((i - 1) % Len(pattern)) + 1]]

\* The stream s written by write_rlevox, with header_size H and H - 44
\* bytes of the pattern after the fixed bytes.
Regrow(s, H, pattern) ==
    SubSeq(s, 1, 6) \o PackH(H) \o SubSeq(s, 9, FixedHeaderLen)
    \o Fill(H - FixedHeaderLen, pattern)
    \o SubSeq(s, HEADER_SIZE + 1, Len(s))

\* The header sizes: no extra byte, one, those of write_rlevox, one more,
\* and more than one byte can count.
HeaderSizesIn ==
    {FixedHeaderLen, FixedHeaderLen + 1, HEADER_SIZE, HEADER_SIZE + 1, 300}

\* The extra bytes: zeros, ones, and bytes that read as run records.
PatternsIn == {<<0>>, <<255>>, <<2, 0, 1, 0>>}

InitGrow ==
    /\ wr \in [pc : {"grown"}, grid : Grids, voxel_size : {4}, origin : {<<0, 0, 0>>},
               header_size : HeaderSizesIn, pattern : PatternsIn]
    /\ stream = Regrow(write_rlevox(NoFile, wr.grid, wr.voxel_size, wr.origin).file,
                       wr.header_size, wr.pattern)
    /\ rd = ReadStart
    /\ NoPackage

NextGrow == ReadHeader \/ ReadRun

SpecGrow == InitGrow /\ [][NextGrow]_vars

\* C21: a stream with the fixed header bytes of write_rlevox's output but
\* header_size H >= 44, H - 44 bytes of any content after them and then the
\* payload is decoded to the grid that was written; the first record is read
\* at offset H and the records end where the stream ends.
C21_HeaderGrowth ==
    /\ rd.pc = "rows" /\ rd.nrec = 0 => rd.pos = wr.header_size
    /\ rd.pc = "done" =>
          /\ rd.result.kind = "ok"
          /\ rd.result.grid = wr.grid
          /\ rd.pos = wr.header_size + 4 * rd.nrec
          /\ DimsPositive(wr.grid) => rd.pos = Len(stream)

\* A grid with a solid and an empty cell in one row has been read back from
\* a stream whose header has 45 bytes, the extra one being 255.
C21_Witness ==
    /\ rd.pc = "done" /\ rd.result.kind = "ok"
    /\ wr.header_size = FixedHeaderLen + 1 /\ wr.pattern = <<255>>
    /\ wr.grid.shape = <<2, 1, 1>>
    /\ wr.grid.cells[<<0, 0, 0>>] /\ ~wr.grid.cells[<<1, 0, 0>>]
    /\ rd.nrec = 2



(***************************************************************************)
(* pack_stella called twice.  A Python dict keeps its keys in the order    *)
(* they were inserted: here a dict is the list of its (key, value) items   *)
(* in that order, so that an iteration that does not sort shows.           *)
(***************************************************************************)
MaxItems == 3      \* a payload dict has at most MaxItems items

\* list(d.keys())
ItemKeys(items) == [i \in DOMAIN items |-> items[i][1]]

\* d[key] = value: the value of a key already there is replaced where it
\* is, a new key goes last.
ItemsSet(items, key, value) ==
    IF key \in Range(ItemKeys(items))
    THEN [i \in DOMAIN items |-> IF items[i][1] = key THEN <<key, value>> ELSE items[i]]
    ELSE Append(items, <<key, value>>)

\* d.update(more)
RECURSIVE ItemsUpdate(_, _)
ItemsUpdate(items, more) ==
    IF more = <<>> THEN items
    ELSE ItemsUpdate(ItemsSet(items, Head(more)[1], Head(more)[2]), Tail(more))

\* d[key] for every key of d
DictOf(items) ==
    [key \in Range(ItemKeys(items)) |->
        items[CHOOSE i \in DOMAIN items : items[i][1] = key][2]]

\* The keys as they were inserted, where the code sorts them.
SortedKeys_AsInserted(keys) == keys

\* sorted(d.keys()), and the paths of sorted(d.items()): the keys of a dict
\* differ, so the values are never compared.
SortedKeys(keys) == Sorted(Range(keys))

\* Lines 64-69 on the items of all_files.
ChecksumContentOf(items) ==
    LET paths == SortedKeys(ItemKeys(items))
        all_files == DictOf(items)
        checksum_lines ==
            [i \in 1..Len(paths) |->
                ChecksumLine(compute_sha256(all_files[paths[i]]), paths[i])]
    IN  Bytes(Utf8Bytes(Join(S_newline, checksum_lines)))

\* Lines 74-82 on the items of all_files.
SortedPathsOf(items) ==
    LET sorted_paths == SortedKeys(ItemKeys(items))
        first == IF MANIFEST_JSON \in Range(sorted_paths)
                 THEN <<MANIFEST_JSON>> \o Remove(sorted_paths, MANIFEST_JSON)
                 ELSE sorted_paths
    IN  IF CHECKSUMS_SHA256 \in Range(first)
        THEN Remove(first, CHECKSUMS_SHA256) \o <<CHECKSUMS_SHA256>>
        ELSE first

\* pack_stella on a file_map given by its items.
pack_stella_items(before, manifest, file_items, include_checksums) ==
    LET all_items == ItemsUpdate(<<<<MANIFEST_JSON, to_json(manifest)>>>>, file_items)
        unhashable == \E i \in DOMAIN all_items : all_items[i][2].kind = "int"
        with_checksums ==
            IF include_checksums
            THEN ItemsSet(all_items, CHECKSUMS_SHA256, ChecksumContentOf(all_items))
            ELSE all_items
        unencodable ==
            \E i \in DOMAIN all_items : ~Encodable(all_items[i][1])
    IN  IF include_checksums /\ unhashable
        THEN [file |-> before,
              result |-> Raise("TypeError", "object supporting the buffer API required")]
        ELSE IF include_checksums /\ unencodable
        THEN [file |-> before,
              result |-> Raise("UnicodeEncodeError", "surrogates not allowed")]
        ELSE WriteMembers(<<>>, SortedPathsOf(with_checksums), DictOf(with_checksums))

\* The items a payload dict is built from: a path and its bytes.
ItemPathsIn ==
    {LevelFile(S_id0, S_level_json), S_assets_thumb, S_zz_space, MANIFEST_JSON,
     CHECKSUMS_SHA256}

ItemListsIn ==
    UNION {{items \in [1..n -> ItemPathsIn \X {Bytes(S_x), Bytes(S_y)}] :
               \A i, j \in 1..n : i # j => items[i][1] # items[j][1]} :
           n \in 0..MaxItems}

\* The lists with the items of a list in any order.
OrdersOf(items) ==
    {[i \in DOMAIN items |-> items[p[i]]] :
        p \in {q \in [DOMAIN items -> DOMAIN items] :
                  \A i, j \in DOMAIN items : i # j => q[i] # q[j]}}

TwiceManifestsIn ==
    {m \in ManifestsIn : m.levels = <<>> \/ m.generator # None}

\* The first call: pack_stella(path, manifest, file_map, include_checksums).
PackFirst ==
    /\ pk.pc = "first"
    /\ LET r == pack_stella_items(disk, pk.manifest, pk.items, pk.include_checksums)
       IN  /\ disk' = r.file
           /\ pk' = [pk EXCEPT !.pc = "second", !.result = r.result, !.first = r.file]
    /\ UNCHANGED <<voxvars, edited, call, sch>>

\* The second call, with the same items inserted in another order.
PackSecond ==
    /\ pk.pc = "second"
    /\ LET r == pack_stella_items(disk, pk.manifest, pk.again, pk.include_checksums)
       IN  /\ disk' = r.file
           /\ pk' = [pk EXCEPT !.pc = "twice", !.result2 = r.result]
    /\ UNCHANGED <<voxvars, edited, call, sch>>

InitTwice ==
    /\ NoVox
    /\ \E items \in ItemListsIn :
          pk \in [pc : {"first"}, manifest : TwiceManifestsIn, items : {items},
                  again : OrdersOf(items), include_checksums : BOOLEAN,
                  result : {NoResult}, result2 : {NoResult}, first : {Absent}]
    /\ disk = Absent
    /\ edited = None
    /\ call = NoCall
    /\ sch = NoSchema

NextTwice == PackFirst \/ PackSecond

SpecTwice == InitTwice /\ [][NextTwice]_vars

\* C22: two calls of pack_stella with the same manifest, the same
\* path-to-bytes pairs inserted in any order and the same include_checksums
\* write the same sequence of (path, content) entries, checksums.sha256
\* included; and the sequence is the one of the payload taken as a mapping.
C22_PackDeterminism ==
    pk.pc = "twice" =>
        /\ pk.result.kind = "ok" /\ pk.result2.kind = "ok"
        /\ disk = pk.first
        /\ disk = pack_stella(Absent, pk.manifest, DictOf(pk.items),
                              pk.include_checksums).file

\* Three items have been packed twice with checksums, the second time in
\* another insertion order.
C22_Witness ==
    /\ pk.pc = "twice" /\ pk.include_checksums
    /\ Len(pk.items) = 3 /\ pk.again # pk.items
    /\ pk.items[1][1] = S_zz_space
    /\ Len(disk.entries) = 5



(***************************************************************************)
(* vox_rle.py: coordinates and collision tests.  The arithmetic is that of *)
(* float64.  A number is far * 2^57 + near fine units + tiny * 2^-64 fine  *)
(* units, far in -1..1 and near and tiny small.  Around 2^57 fine units    *)
(* the float64 values are FarUlp fine units apart (half as much just below *)
(* 2^57); a number of some fine units is held exactly, the float64 values  *)
(* next to it being 2^-53 of it or more away, so that a few 2^-64 fine     *)
(* units added to it are rounded away; a number of 2^-64 fine units alone  *)
(* is held exactly.  A voxel_size is 2 or 4 fine units: (index + 0.5) *    *)
(* voxel_size is held exactly, and float64 divides by it exactly.          *)
(***************************************************************************)
Num(far, near) == [far |-> far, near |-> near, tiny |-> 0]

\* A number of 2^-64 fine units.
Tiny(tiny) == [far |-> 0, near |-> 0, tiny |-> tiny]

FarUlp == 32       \* 2^(57 - 52): the spacing of float64 in [2^57, 2^58)

\* n fine units and something of the sign of rest that is less than a fine
\* unit, rounded to the nearest multiple of step; n alone is rounded, a tie
\* to the even multiple.
RoundTo(n, step, rest) ==
    LET q == n \div step
        r == n % step
    IN  step * (IF 2 * r < step THEN q
                ELSE IF 2 * r > step THEN q + 1
                ELSE IF rest > 0 THEN q + 1
                ELSE IF rest < 0 THEN q
                ELSE IF q % 2 = 0 THEN q ELSE q + 1)

\* The float64 nearest to far * 2^57 + near + tiny * 2^-64.
Fl(far, near, tiny) ==
    IF far = 0
    THEN IF near = 0 THEN Tiny(tiny) ELSE Num(0, near)
    ELSE IF (far > 0) = (near >= 0) \/ near = 0
         THEN Num(far, RoundTo(near, FarUlp, tiny))
         ELSE Num(far, RoundTo(near, FarUlp \div 2, tiny))

\* a + b and a - b in float64
FAdd(a, b) == Fl(a.far + b.far, a.near + b.near, a.tiny + b.tiny)
FSub(a, b) == Fl(a.far - b.far, a.near - b.near, a.tiny - b.tiny)

\* a < b
NumLess(a, b) ==
    \/ a.far < b.far
    \/ a.far = b.far /\ a.near < b.near
    \/ a.far = b.far /\ a.near = b.near /\ a.tiny < b.tiny

\* np.floor(d / voxel_size).astype(int) and np.ceil(d / voxel_size).astype(int):
\* for a far d the quotient is far * (2^57 / voxel_size) and something small;
\* for a d of 2^-64 fine units it lies between -1 and 1.
FloorDiv(d, voxel_size) ==
    IF d.far = 0 /\ d.near = 0 /\ d.tiny < 0 THEN Num(0, -1)
    ELSE Num(d.far, d.near \div voxel_size)
CeilDiv_Floor(d, voxel_size) ==
    IF d.far = 0 /\ d.near = 0 /\ d.tiny < 0 THEN Num(0, -1)
    ELSE Num(d.far, d.near \div voxel_size)
CeilDiv(d, voxel_size) ==
    IF d.far = 0 /\ d.near = 0 /\ d.tiny > 0 THEN Num(0, 1)
    ELSE Num(d.far, 0 - ((0 - d.near) \div voxel_size))

\* grid_to_world for one index [x, y, z]
grid_to_world(index, voxel_size, origin) ==
    [k \in 1..3 |-> FAdd(origin[k], Num(0, ((2 * index[k] + 1) * voxel_size) \div 2))]

\* world_to_grid rounding up where the code rounds down.
world_to_grid_Ceil(position, voxel_size, origin) ==
    [k \in 1..3 |-> CeilDiv(FSub(position[k], origin[k]), voxel_size)]

\* world_to_grid for one position
world_to_grid(position, voxel_size, origin) ==
    [k \in 1..3 |-> FloorDiv(FSub(position[k], origin[k]), voxel_size)]

\* An index held as an int.
AsIndex(index) == [k \in 1..3 |-> Num(0, index[k])]


\* Whether an index lies in the grid: the test of check_collision_point.
InGrid(idx, shape) ==
    \A k \in 1..3 : ~NumLess(idx[k], Num(0, 0)) /\ NumLess(idx[k], Num(0, shape[k]))

\* check_collision_point(grid, position, voxel_size, origin)
check_collision_point(grid, position, voxel_size, origin) ==
    LET idx == world_to_grid(position, voxel_size, origin)
    IN  IF ~InGrid(idx, grid.shape) THEN FALSE
        ELSE grid.cells[<<idx[1].near, idx[2].near, idx[3].near>>]

\* np.maximum(a, b) and np.minimum(a, b) for one component
Maximum(a, b) == IF NumLess(a, b) THEN b ELSE a
Minimum(a, b) == IF NumLess(b, a) THEN b ELSE a

\* min_idx of check_collision_capsule, before it is clamped
CapsuleMinIdx(position, radius, voxel_size, origin) ==
    LET min_pos == <<FSub(position[1], radius),
                     FSub(position[2], Num(0, 0)),
                     FSub(position[3], radius)>>
    IN  [k \in 1..3 |-> FloorDiv(FSub(min_pos[k], origin[k]), voxel_size)]

\* max_idx of check_collision_capsule, before it is clamped
CapsuleMaxIdx(position, radius, height, voxel_size, origin) ==
    LET max_pos == <<FAdd(position[1], radius),
                     FAdd(position[2], height),
                     FAdd(position[3], radius)>>
    IN  [k \in 1..3 |-> CeilDiv(FSub(max_pos[k], origin[k]), voxel_size)]

\* The clamp that leaves max_idx as it is.
ClampMax_Unclamped(max_idx, shape) == max_idx

\* The clamps of check_collision_capsule.
ClampMin(min_idx) == [k \in 1..3 |-> Maximum(min_idx[k], Num(0, 0))]
ClampMax(max_idx, shape) == [k \in 1..3 |-> Minimum(max_idx[k], Num(0, shape[k]))]

\* range(lo, hi): lo is at least 0 and hi at most a grid dimension, so the
\* range is empty when either is far.
RangeOf(lo, hi) == IF lo.far = 0 /\ hi.far = 0 THEN lo.near..(hi.near - 1) ELSE {}

\* The cells the loops of check_collision_capsule go through.
CapsuleBox(shape, position, radius, height, voxel_size, origin) ==
    LET lo == ClampMin(CapsuleMinIdx(position, radius, voxel_size, origin))
        hi == ClampMax(CapsuleMaxIdx(position, radius, height, voxel_size, origin), shape)
    IN  RangeOf(lo[1], hi[1]) \X RangeOf(lo[2], hi[2]) \X RangeOf(lo[3], hi[3])

\* check_collision_capsule(grid, position, radius, height, voxel_size, origin):
\* the value it returns and the cells it may read; a cell outside the grid is
\* what numpy refuses (or wraps around), and counts as not solid here.
check_collision_capsule(grid, position, radius, height, voxel_size, origin) ==
    LET box == CapsuleBox(grid.shape, position, radius, height, voxel_size, origin)
    IN  [value |-> \E c \in box : c \in Idx(grid.shape) /\ grid.cells[c],
         reads |-> box]

\* Inputs.  A voxel_size of 2 fine units is 1.0 when the fine unit is 0.5;
\* Num(1, 0) is then 2^56, Num(0, -2) is -1.0 and Tiny(1) is 2^-65, which
\* float64 adds to 1.0 and to 2^56 without a trace.
GeomVoxelSizes == {2, 4}
GeomOrigins ==
    {<<Num(0, 0), Num(0, 0), Num(0, 0)>>, <<Num(0, -3), Num(0, 0), Num(0, 5)>>,
     <<Num(0, -2), Num(0, -2), Num(0, 0)>>, <<Num(1, 0), Num(0, 0), Num(0, 0)>>}
GeomPositions ==
    {<<x, Num(0, y), Num(0, z)>> :
        x \in {Num(0, -5), Tiny(-1), Num(0, 0), Num(0, 3), Num(0, 9),
               Num(1, 0), Num(1, FarUlp)},
        y \in {-7, 0, 3}, z \in {1, 6}}
RadiiIn == {Num(0, 1), Num(0, 3), Num(0, FarUlp), Tiny(1)}
HeightsIn == {Num(0, 1), Num(0, 6), Tiny(1)}
GeomGrids == {g \in Grids : DimsPositive(g)}

GridToWorld ==
    /\ call.op = "coords"
    /\ call.world = None
    /\ call' = [call EXCEPT !.world =
                   Some(grid_to_world(call.index, call.voxel_size, call.origin))]
    /\ UNCHANGED <<voxvars, pk, disk, edited, sch>>

WorldToGrid ==
    /\ call.op = "coords"
    /\ call.world # None
    /\ call.back = None
    /\ call' = [call EXCEPT !.back =
                   Some(world_to_grid(call.world[1], call.voxel_size, call.origin))]
    /\ UNCHANGED <<voxvars, pk, disk, edited, sch>>

PointCall ==
    /\ call.op = "collide"
    /\ call.point = None
    /\ call' = [call EXCEPT !.point =
                   Some(check_collision_point(call.grid, call.position,
                                              call.voxel_size, call.origin))]
    /\ UNCHANGED <<voxvars, pk, disk, edited, sch>>

CapsuleCall ==
    /\ call.op = "collide"
    /\ call.point # None
    /\ call.capsule = None
    /\ call' = [call EXCEPT !.capsule =
                   Some(check_collision_capsule(call.grid, call.position, call.radius,
                                                call.height, call.voxel_size, call.origin))]
    /\ UNCHANGED <<voxvars, pk, disk, edited, sch>>

InitGeom ==
    /\ NoVox
    /\ pk = [pc |-> "idle"]
    /\ disk = [kind |-> "absent"]
    /\ edited = <<>>
    /\ sch = [pc |-> "idle"]
    /\ \/ \E shape \in ShapesIn :
             call \in [op : {"coords"}, shape : {shape}, index : Idx(shape),
                       voxel_size : GeomVoxelSizes, origin : GeomOrigins,
                       world : {None}, back : {None}]
       \/ call \in [op : {"collide"}, grid : GeomGrids, position : GeomPositions,
                    radius : RadiiIn, height : HeightsIn,
                    voxel_size : GeomVoxelSizes, origin : GeomOrigins,
                    point : {None}, capsule : {None}]

NextGeom == GridToWorld \/ WorldToGrid \/ PointCall \/ CapsuleCall

SpecGeom == InitGeom /\ [][NextGeom]_vars

OriginNear(origin) == \A k \in 1..3 : origin[k].far = 0

CapsuleLow(c, k) ==
    FSub(FSub(c.position[k], IF k = 2 THEN Num(0, 0) ELSE c.radius), c.origin[k])
CapsuleHigh(c, k) ==
    FSub(FAdd(c.position[k], IF k = 2 THEN c.height ELSE c.radius), c.origin[k])

\* floor(a / voxel_size) <= x, and x < ceil(b / voxel_size), without a division:
\* (x + 1) * voxel_size > a, and x * voxel_size < b.
AtLeastFloor(x, a, voxel_size) == NumLess(a, Num(0, (x + 1) * voxel_size))
BelowCeil(x, b, voxel_size) == NumLess(Num(0, x * voxel_size), b)

\* The cells of the grid in the clamped box of the capsule of call c.
ClampedBox(c) ==
    {cell \in Idx(c.grid.shape) :
        \A k \in 1..3 : /\ AtLeastFloor(cell[k], CapsuleLow(c, k), c.voxel_size)
                        /\ BelowCeil(cell[k], CapsuleHigh(c, k), c.voxel_size)}

\* C24: check_collision_capsule returns true iff a solid cell lies in the box
\* max(floor((position - (radius, 0, radius) - origin) / voxel_size), 0) <=
\* (x, y, z) < min(ceil((position + (radius, height, radius) - origin) /
\* voxel_size), dims); it returns false when the box is empty, and it reads no
\* cell outside the grid.
C24_CapsuleBox ==
    (call.op = "collide" /\ call.capsule # None) =>
        /\ call.capsule[1].value = (\E cell \in ClampedBox(call) : call.grid.cells[cell])
        /\ (ClampedBox(call) = {} => ~call.capsule[1].value)
        /\ call.capsule[1].reads \subseteq Idx(call.grid.shape)
        /\ call.capsule[1].reads = ClampedBox(call)

\* C24 witness: the capsule test returned true on a grid that also has a solid
\* cell outside the box, the box having been clamped at the upper end.
C24_Witness ==
    /\ call.op = "collide"
    /\ call.capsule # None
    /\ call.capsule[1].value
    /\ \E cell \in Idx(call.grid.shape) \ call.capsule[1].reads : call.grid.cells[cell]
    /\ \E k \in 1..3 :
          NumLess(Num(0, call.grid.shape[k]),
                  CapsuleMaxIdx(call.position, call.radius, call.height,
                                call.voxel_size, call.origin)[k])


\* (position - origin) / voxel_size, component k, as float64 computes it,
\* taken voxel_size times: float64 divides by the voxel sizes here exactly,
\* so that two quotients are ordered as the numbers that are divided.
PointOffset(c, k) == FSub(c.position[k], c.origin[k])

\* On every axis (position + (radius, height, radius) - origin) / voxel_size
\* is greater than (position - origin) / voxel_size, both as float64
\* computes them: rounding has not absorbed the radius or the height, neither
\* when it was added to the position nor when the origin was subtracted.
ExtentSurvives(c) ==
    \A k \in 1..3 : NumLess(PointOffset(c, k), CapsuleHigh(c, k))

\* The cell of the grid that holds the position of call c:
\* floor((position - origin) / voxel_size), when it is within the grid.
CellsHolding(c) ==
    {cell \in Idx(c.grid.shape) :
        \A k \in 1..3 :
            /\ ~NumLess(PointOffset(c, k), Num(0, cell[k] * c.voxel_size))
            /\ NumLess(PointOffset(c, k), Num(0, (cell[k] + 1) * c.voxel_size))}

\* check_collision_point is true iff floor((position - origin) / voxel_size)
\* is within the grid and that cell is solid.
PointIsCellSolid ==
    (call.op = "collide" /\ call.point # None) =>
        call.point[1] = (\E cell \in CellsHolding(call) : call.grid.cells[cell])

\* C30 as stated: if check_collision_point is true then check_collision_capsule
\* is true, for every radius > 0 and height > 0; and check_collision_point is
\* true iff the cell of the position is within the grid and solid.
C30_PointImpliesCapsuleAny ==
    /\ PointIsCellSolid
    /\ (call.op = "collide" /\ call.capsule # None /\ call.point[1]) =>
           call.capsule[1].value

\* C30, amended: if check_collision_point is true then check_collision_capsule
\* is true, for every radius > 0 and height > 0 that float64 rounding does
\* not absorb: on every axis (position + (radius, height, radius) - origin) /
\* voxel_size is, as computed, greater than (position - origin) / voxel_size
\* (every index of the model is within the integer type); the cell of the
\* position is then one of the cells of the box; and check_collision_point
\* is true iff the cell of the position is within the grid and solid.
C30_PointImpliesCapsule ==
    /\ PointIsCellSolid
    /\ (/\ call.op = "collide" /\ call.capsule # None /\ call.point[1]
        /\ ExtentSurvives(call)) =>
           /\ call.capsule[1].value
           /\ CellsHolding(call) \subseteq call.capsule[1].reads

\* C30 witness: both tests returned true for a height of 2^-65 that no
\* rounding absorbed, and the box has more cells than the one of the
\* position.
C30_Witness ==
    /\ call.op = "collide"
    /\ call.capsule # None
    /\ call.point[1]
    /\ call.capsule[1].value
    /\ ExtentSurvives(call)
    /\ call.height = Tiny(1)
    /\ call.capsule[1].reads # CellsHolding(call)


(***************************************************************************)
(* The decoder on hostile files: any value and flags byte in a record,     *)
(* payloads that are cut short or longer than the grid needs, and a        *)
(* header_size that points into the header or past the end of the file.    *)
(***************************************************************************)
\* Records <<run_length, value, flags>> with values other than 0 and 1 and
\* flags other than 0.
AnyRunsIn ==
    {<<0, 1, 0>>, <<1, 0, 0>>, <<1, 1, 7>>, <<3, 1, 0>>, <<1, 2, 255>>, <<3, 255, 1>>}

AnyRecordSeqs == UNION {[1..n -> AnyRunsIn] : n \in 0..MaxRecords}

\* header_size values: inside the fixed header (at 6 the first record read is
\* the header_size field and the low half of dim_x), the fixed header alone,
\* the writer's, and one past the end of the file.
HostileHeaderSizesIn == {0, 6, 8, FixedHeaderLen, HEADER_SIZE, 300}

HostileStreamsIn ==
    {HeaderBytes(MAGIC, VERSION, HEADER_SIZE, s, 4, <<0, 0, 0>>, ENCODING)
        \o CutTail(RecordBytes(recs), k) :
            s \in ShapesIn, recs \in AnyRecordSeqs, k \in {0, 2}}
    \cup
    {SubSeq(HeaderBytes(MAGIC, VERSION, h, s, 4, <<0, 0, 0>>, ENCODING), 1,
            Max(FixedHeaderLen, Min(h, HEADER_SIZE)))
        \o RecordBytes(recs) :
            h \in HostileHeaderSizesIn, s \in ShapesIn,
            recs \in {<<>>, <<<<1, 1, 0>>>>, <<<<3, 1, 0>>, <<1, 2, 0>>>>}}

InitBounded ==
    /\ wr = [pc |-> "absent"]
    /\ stream \in HostileStreamsIn
    /\ rd = ReadStart
    /\ NoPackage

NextBounded == ReadHeader \/ ReadRun

SpecBounded == InitBounded /\ [][NextBounded]_vars

\* C25: on every stream, every cell that read_rlevox writes is inside the
\* dimensions the header declares, the records it reads lie between offset
\* header_size and the end of the stream, and it reads at most
\* dim_x * dim_y * dim_z records.
C25_BoundedDecoding ==
    /\ rd.wrote \subseteq Idx(<<rd.dim_x, rd.dim_y, rd.dim_z>>)
    /\ rd.pos >= rd.header_size
    /\ rd.pos - rd.header_size < 4 * (rd.nrec + 1)
    /\ rd.header_size + 4 * rd.nrec <= rd.pos
    /\ (rd.pos > rd.header_size => rd.pos <= Len(stream))
    /\ rd.nrec <= rd.dim_x * rd.dim_y * rd.dim_z

\* C25 witness: a header_size inside the header made the decoder read header
\* bytes as a record and mark a cell with it.
C25_Witness ==
    /\ rd.pc = "done"
    /\ rd.result.kind = "ok"
    /\ rd.header_size < FixedHeaderLen
    /\ rd.nrec >= 1
    /\ rd.wrote # {}


(***************************************************************************)
(* read_rlevox runs in one thread, from its first statement to a return or *)
(* a raise: a step that can be taken is taken.                             *)
(***************************************************************************)
\* Streams whose records have a run_length of 0, of one cell, and longer than
\* a row, whole or cut inside a record, and the streams whose header_size
\* points into the header or past the end.
LoopStreamsIn ==
    {HeaderBytes(MAGIC, VERSION, HEADER_SIZE, s, 4, <<0, 0, 0>>, ENCODING)
        \o CutTail(RecordBytes(recs), k) :
            s \in ShapesIn, k \in {0, 2},
            recs \in UNION {[1..n -> {<<0, 1, 0>>, <<1, 1, 0>>, <<3, 0, 0>>}] :
                               n \in 0..MaxRecords}}
    \cup
    {SubSeq(HeaderBytes(MAGIC, VERSION, h, s, 4, <<0, 0, 0>>, ENCODING), 1,
            Max(FixedHeaderLen, Min(h, HEADER_SIZE)))
        \o RecordBytes(recs) :
            h \in HostileHeaderSizesIn, s \in ShapesIn,
            recs \in {<<>>, <<<<1, 1, 0>>>>, <<<<3, 1, 0>>, <<1, 2, 0>>>>}}

InitTerminates ==
    /\ wr = [pc |-> "absent"]
    /\ stream \in LoopStreamsIn
    /\ rd = ReadStart
    /\ NoPackage

SpecTerminates ==
    InitTerminates /\ [][NextBounded]_vars /\ WF_vars(ReadHeader) /\ WF_vars(ReadRun)

\* The cells before the position (x, y, z) of the loops, in the order of the
\* loops.
LoopRank(r) == (r.z * r.dim_y + r.y) * r.dim_x + r.x

\* C26: on every stream read_rlevox eventually returns a grid or raises an
\* error; a record is read only at x < dim_x, and each iteration of the row
\* loop either fails or moves the position forward.
C26_DecodingTerminates ==
    /\ <>(rd.pc = "done" /\ rd.result.kind \in {"ok", "error"})
    /\ [](rd.pc = "rows" => rd.x < rd.dim_x)
    /\ [][rd.pc = "rows" =>
            \/ rd'.pc = "done" /\ rd'.result.kind = "error"
            \/ /\ LoopRank(rd') > LoopRank(rd)
               /\ rd'.y = rd.y /\ rd'.z = rd.z => rd'.x > rd.x]_vars

\* C26 witness: the decoder returned a grid after going through the row loop
\* three times or more.
C26_Witness ==
    /\ rd.pc = "done"
    /\ rd.result.kind = "ok"
    /\ rd.nrec >= 3
    /\ rd.overshoot


(***************************************************************************)
(* package.py: get_level_json, after validate_stella on the same archive.  *)
(***************************************************************************)
\* The indexes of the level references whose id is level_id.
LevelRefs(manifest, level_id) ==
    {i \in DOMAIN manifest.levels : manifest.levels[i].id = level_id}

\* LevelJson.from_json(zf.read(path).decode("utf-8"))
ReadLevelJson(file, path) ==
    LET level_text == DecodeText(ZipRead(file, path))
    IN  IF level_text.kind = "error" THEN level_text
        ELSE LevelJson_from_json(level_text.value)

\* Lines 242-247, with the manifest unpack_stella returned: the LevelJson of
\* the first level whose id is level_id, or the exception.
LevelOf(file, manifest, level_id) ==
    LET refs == LevelRefs(manifest, level_id)
    IN  IF refs = {}
        THEN Raise("ValueError", "Level not found in manifest")
        ELSE LET level_ref ==
                     manifest.levels[CHOOSE i \in refs : \A j \in refs : i <= j]
             IN  IF level_ref.path \notin NameSet(file)
                 THEN Raise("KeyError", "There is no item named in the archive")
                 ELSE ReadLevelJson(file, level_ref.path)

\* get_level_json(stella_path, level_id): the LevelJson, or the exception.
get_level_json(file, level_id) ==
    LET unpacked == unpack_stella(file, None, FALSE).result
    IN  IF unpacked.kind = "error" THEN unpacked
        ELSE LevelOf(file, unpacked.value.manifest, level_id)

GetLevelCall ==
    /\ pk.pc = "done"
    /\ call.op = "validate"
    /\ \E level_id \in {S_id0, S_id1} :
          call' = [op |-> "level", validated |-> call.result, level_id |-> level_id,
                   result |-> get_level_json(disk, level_id)]
    /\ UNCHANGED <<voxvars, pk, disk, edited, sch>>

InitLookup ==
    /\ NoVox
    /\ pk \in [pc : {"start"}, manifest : LookupManifestsIn, file_map : FileMapsIn,
               include_checksums : BOOLEAN, before : {Absent},
               result : {[kind |-> "none"]}]
    /\ disk = pk.before
    /\ edited = None
    /\ call = NoCall
    /\ sch = NoSchema

NextLookup == PackCall \/ ValidateCall \/ GetLevelCall

SpecLookup == InitLookup /\ [][NextLookup]_vars

\* C27: on an archive for which validate_stella returns ok, get_level_json
\* for a level id that the manifest declares does not fail with a missing
\* entry.
C27_LookupAgreesWithValidation ==
    (/\ call.op = "level"
     /\ call.validated.kind = "ok" /\ call.validated.value.ok
     /\ \E i \in DOMAIN pk.manifest.levels : pk.manifest.levels[i].id = call.level_id)
    => ~(call.result.kind = "error" /\ call.result.exc = "KeyError")


(***************************************************************************)
(* verify_stella_checksums on an archive with entries that no line of      *)
(* checksums.sha256 covers: after pack_stella, an entry is added to the    *)
(* archive or a line is removed from checksums.sha256.                     *)
(***************************************************************************)
\* s without its i-th element
DropAt(s, i) == SubSeq(s, 1, i - 1) \o SubSeq(s, i + 1, Len(s))

\* The path of a line of checksums.sha256 (the line itself when it has no
\* separator).
LinePath(line) ==
    LET parts == Split1(line, S_two_spaces) IN parts[Len(parts)]

\* checksums.sha256 can be decoded.
Decodable(file) == DecodeText(ZipRead(file, CHECKSUMS_SHA256)).kind = "ok"

\* The lines of checksums.sha256 as it is stored; none when it is no text.
StoredLines(file) ==
    IF Decodable(file)
    THEN Split(DecodeText(ZipRead(file, CHECKSUMS_SHA256)).value.data, S_newline)
    ELSE <<>>

\* Someone adds an entry to the packed archive.
AddEntry ==
    /\ pk.pc = "done" /\ pk.result.kind = "ok"
    /\ edited = None
    /\ call = NoCall
    /\ \E path \in {S_y, S_assets_thumb} \ NameSet(disk), data \in EditsIn :
          /\ disk' = Zip(Append(disk.entries, Entry(path, data)))
          /\ edited' = Some(path)
    /\ UNCHANGED <<voxvars, pk, call, sch>>

\* Someone removes a line from checksums.sha256.
DropLine ==
    /\ pk.pc = "done" /\ pk.result.kind = "ok"
    /\ edited = None
    /\ call = NoCall
    /\ CHECKSUMS_SHA256 \in NameSet(disk)
    /\ LET lines == StoredLines(disk)
       IN  \E k \in DOMAIN disk.entries, i \in DOMAIN lines :
              /\ disk.entries[k].path = CHECKSUMS_SHA256
              /\ disk' = EditEntry(disk, k,
                                   Bytes(Utf8Bytes(Join(S_newline, DropAt(lines, i)))))
              /\ edited' = Some(LinePath(lines[i]))
    /\ UNCHANGED <<voxvars, pk, call, sch>>

InitCover ==
    /\ NoVox
    /\ pk \in [pc : {"start"}, manifest : ManifestsIn, file_map : FileMapsIn,
               include_checksums : BOOLEAN, before : {Absent},
               result : {[kind |-> "none"]}]
    /\ disk = pk.before
    /\ edited = None
    /\ call = NoCall
    /\ sch = NoSchema

NextCover == PackCall \/ AddEntry \/ DropLine \/ VerifyCall

SpecCover == InitCover /\ [][NextCover]_vars

\* The k-th entry of the archive is not checksums.sha256 and no line of
\* checksums.sha256 has its path.
Uncovered(file, k) ==
    LET lines == StoredLines(file)
    IN  /\ file.entries[k].path # CHECKSUMS_SHA256
        /\ \A i \in DOMAIN lines : LinePath(lines[i]) # file.entries[k].path
        /\ \A i \in DOMAIN lines : LinePath(Strip(lines[i])) # file.entries[k].path

\* The errors that name a line: malformed line, missing file, mismatch.
ErrorsOfLine(line) ==
    {Err("Malformed checksum line: ", line),
     Err("Missing file: ", LinePath(line)),
     Err("Checksum mismatch for ", LinePath(line))}

\* C28: verify_stella_checksums returns unless checksums.sha256 cannot be
\* decoded; every error that it returns names a line of checksums.sha256,
\* and an entry of the archive that has no line there causes no error: the
\* result is the same as without that entry.
C28_OnlyListedPaths ==
    (call.op = "verify" /\ disk.kind = "zip" /\ CHECKSUMS_SHA256 \in NameSet(disk)) =>
        /\ call.result.kind = "ok" <=> Decodable(disk)
        /\ call.result.kind = "ok" =>
              \A e \in Range(call.result.value.errors) :
                  \E line \in Range(Split(Strip(Join(S_newline, StoredLines(disk))),
                                          S_newline)) :
                      e \in ErrorsOfLine(line)
        /\ \A k \in DOMAIN disk.entries :
              Uncovered(disk, k) =>
                  verify_stella_checksums(Zip(DropAt(disk.entries, k))) = call.result

\* C28 witness: verify_stella_checksums returned ok = true for an archive one
\* of whose entries, added after packing or with its line removed, no line
\* of checksums.sha256 covers.
C28_Witness ==
    /\ call.op = "verify"
    /\ pk.include_checksums
    /\ edited # None
    /\ call.result.kind = "ok"
    /\ call.result.value.ok
    /\ call.result.value.errors = <<>>
    /\ \E k \in DOMAIN disk.entries :
          disk.entries[k].path = edited[1] /\ Uncovered(disk, k)


\* The record at the read position: its run_length and its value byte.
RunLengthAt(s, pos) == s[pos + 1] + 256 * s[pos + 2]
ValueAt(s, pos) == s[pos + 3]
FlagsAt(s, pos) == s[pos + 4]

\* C29: read_rlevox marks the cells of a run solid iff the value byte of the
\* record is 1; a record with a value byte of 2..255 raises no error and
\* leaves its cells empty; the flags byte changes nothing.
C29_ValueByte ==
    [][(rd.pc = "rows" /\ rd.pos + 4 <= Len(stream) /\ RunLengthAt(stream, rd.pos) >= 1) =>
          /\ rd'.result.kind # "error"
          /\ rd'.pos = rd.pos + 4
          /\ \A c \in Idx(<<rd.dim_x, rd.dim_y, rd.dim_z>>) :
                IF /\ c[2] = rd.y /\ c[3] = rd.z
                   /\ rd.x <= c[1] /\ c[1] < rd.x + RunLengthAt(stream, rd.pos)
                THEN /\ ~rd.grid.cells[c]
                     /\ rd'.grid.cells[c] = (ValueAt(stream, rd.pos) = 1)
                ELSE rd'.grid.cells[c] = rd.grid.cells[c]]_vars

\* C29 witness: the decoder returned a grid with a solid cell and an empty
\* one from a stream with a record of value 1 and flags other than 0 and a
\* record of value 2 or more.
C29_Witness ==
    /\ rd.pc = "done"
    /\ rd.result.kind = "ok"
    /\ rd.header_size = HEADER_SIZE
    /\ \E c \in DOMAIN rd.grid.cells : rd.grid.cells[c]
    /\ \E c \in DOMAIN rd.grid.cells : ~rd.grid.cells[c]
    /\ \E j \in 0..(rd.nrec - 1) :
          /\ ValueAt(stream, rd.header_size + 4 * j) = 1
          /\ FlagsAt(stream, rd.header_size + 4 * j) # 0
    /\ \E j \in 0..(rd.nrec - 1) :
          /\ ValueAt(stream, rd.header_size + 4 * j) >= 2
          /\ RunLengthAt(stream, rd.header_size + 4 * j) >= 1

=============================================================================
